---- MODULE Spec2Model ----
(***************************************************************************)
(* Persistence, checkout and administration core of the Felicia storefront *)
(* (src/server.js): the record store with its two backends, the checkout   *)
(* handler with its confirmation mail, the order list, signup and login,   *)
(* the secret-gated export and the import from production.                 *)
(*                                                                         *)
(* Scheduling: one Node.js event loop.  A handler runs without interruption*)
(* up to an await of real work done elsewhere (a blob call, a fetch, a     *)
(* bcrypt hash or comparison).  An await of an already settled promise (the*)
(* local-file accessors, which do synchronous fs calls inside an async     *)
(* function) resumes in the same microtask drain, before any other         *)
(* request's callback, so on the local backend a handler's read,           *)
(* modification and write form one step unless such an await lies between. *)
(***************************************************************************)
EXTENDS Integers, Sequences, FiniteSets, TLC

(* ------------------------------ bounds -------------------------------- *)
\* number of concurrent checkout requests
\* last identifier setInterval hands out on the dashboard page
MaxTimers == 3

\* largest quantity of one cart entry of the storefront
MaxQuantity == 3

NumCheckouts == 2
\* last millisecond the clock reaches
MaxClock == 2
\* storage operations that may fail in one behaviour
MaxFaults == 1
\* longest cart of the input-validation specification
MaxCart == 2
\* numbers are fixed-point: the model value n stands for n / Den
Den == 2
\* number of concurrent signup requests
NumSignups == 2
\* number of concurrent login requests
NumLogins == 2

(* --------------------------- JavaScript values ------------------------ *)
Undef == [t |-> "undefined"]
NaN == [t |-> "NaN"]
Null == [t |-> "null"]
Num(n) == [t |-> "number", n |-> n]
Str(s) == [t |-> "string", s |-> s]
Arr(a) == [t |-> "array", a |-> a]
Obj(f) == [t |-> "object", f |-> f]

\* a whole number k as a fixed-point value
Whole(k) == k * Den

\* ToBoolean: undefined, null, NaN, 0 and "" are falsy
Truthy(x) ==
    CASE x.t = "undefined" -> FALSE
      [] x.t = "NaN" -> FALSE
      [] x.t = "null" -> FALSE
      [] x.t = "number" -> x.n # 0
      [] x.t = "string" -> x.s # ""
      [] OTHER -> TRUE

\* a || b
Or(a, b) == IF Truthy(a) THEN a ELSE b

\* the strings of the model that denote a number, with the number ("" is 0)
NumericStrings == [s \in {"2", "0", ""} |-> IF s = "2" THEN Whole(2) ELSE 0]

\* Number(x)
Number(x) ==
    CASE x.t = "number" -> x
      [] x.t = "string" ->
            IF x.s \in DOMAIN NumericStrings THEN Num(NumericStrings[x.s]) ELSE NaN
      [] OTHER -> NaN

\* a * b: both operands go through ToNumber
Mul(a, b) ==
    LET x == Number(a)
        y == Number(b)
    IN  IF x.t = "number" /\ y.t = "number" THEN Num((x.n * y.n) \div Den) ELSE NaN

\* a + b on two numbers
Add(a, b) == Num(a.n + b.n)

(* ------------------------------ catalog ------------------------------- *)
\* data/products.json as readJson(PRODUCTS_FILE, []) returns it; the file is data
\* the handler takes as it finds it, and the third product's price was entered
\* as a JSON string ("price": "2")
Products == <<
    [id |-> "p1", name |-> "Dress", category |-> "women", price |-> Num(Whole(10)),
     size |-> Undef, color |-> Str("red")],
    [id |-> "p2", name |-> "Shirt", category |-> "men", price |-> Num(Whole(25)),
     size |-> Str("Large"), color |-> Undef],
    [id |-> "p3", name |-> "Scarf", category |-> "women", price |-> Str("2"),
     size |-> Undef, color |-> Undef] >>

\* new Map(products.map((p) => [p.id, p])): the last product of an id wins
ProductIds == {Products[i].id : i \in DOMAIN Products}
productMap == [id \in ProductIds |->
    Products[CHOOSE i \in DOMAIN Products :
        /\ Products[i].id = id
        /\ \A j \in DOMAIN Products : Products[j].id = id => j <= i]]

(* ------------------------------ checkout ------------------------------ *)
\* const quantity = Number(item.quantity) || 1
Quantity(item) == Or(Number(item.quantity), Num(Whole(1)))

\* the price a line is charged at: product.price
LinePriceFromCart(item, product) == Or(Number(item.price), product.price)
LinePrice(item, product) == product.price

\* one pass of the loop over cartItems: the line pushed for a resolved entry
LineItem(item) ==
    LET product == productMap[item.productId]
        quantity == Quantity(item)
    IN  [productId |-> product.id,
         name |-> product.name,
         category |-> product.category,
         price |-> LinePrice(item, product),
         quantity |-> quantity,
         size |-> Or(item.size, Or(product.size, Str("Medium"))),
         color |-> Or(item.color, Or(product.color, Str(""))),
         lineTotal |-> Mul(LinePrice(item, product), quantity)]

\* the loop leaving at the first unknown product (`break` for `continue`)
RECURSIVE CartLinesUntilUnknown(_)
CartLinesUntilUnknown(cart) ==
    IF cart = <<>> THEN <<>>
    ELSE LET item == Head(cart)
         IN  IF item.productId \in DOMAIN productMap
             THEN <<LineItem(item)>> \o CartLinesUntilUnknown(Tail(cart))
             ELSE <<>>

\* the loop over cartItems: entries of unknown products are skipped
RECURSIVE CartLines(_)
CartLines(cart) ==
    IF cart = <<>> THEN <<>>
    ELSE LET item == Head(cart)
         IN  IF item.productId \in DOMAIN productMap
             THEN <<LineItem(item)>> \o CartLines(Tail(cart))
             ELSE CartLines(Tail(cart))

\* total += lineTotal, from 0, in cart order
RECURSIVE LinesTotal(_)
LinesTotal(items) ==
    IF items = <<>> THEN Num(0)
    ELSE Add(LinesTotal(SubSeq(items, 1, Len(items) - 1)), items[Len(items)].lineTotal)

IsArray(x) == x.t = "array"

\* x.k for a value x that may or may not be an object
Field(x, k) == IF x.t = "object" THEN x.f[k] ELSE Undef

\* !Array.isArray(cartItems) || cartItems.length === 0
CartIsEmptyNoLength(cartItems) == ~IsArray(cartItems)
CartIsEmpty(cartItems) == ~IsArray(cartItems) \/ Len(cartItems.a) = 0

\* !customer || !customer.name || !customer.email || !customer.address
CustomerIncompleteNoAddress(customer) ==
    \/ ~Truthy(customer)
    \/ ~Truthy(Field(customer, "name"))
    \/ ~Truthy(Field(customer, "email"))
CustomerIncomplete(customer) ==
    \/ ~Truthy(customer)
    \/ ~Truthy(Field(customer, "name"))
    \/ ~Truthy(Field(customer, "email"))
    \/ ~Truthy(Field(customer, "address"))

NoRes == [status |-> 0]
ErrorRes(status, error) == [status |-> status, error |-> error]
CheckoutOk(orderId) ==
    [status |-> 200, success |-> TRUE, orderId |-> orderId,
     message |-> "Order placed successfully!"]

\* the handler's early returns, in order; NoRes when the request passes them
CheckoutRejection(body) ==
    IF CartIsEmpty(body.cartItems)
    THEN ErrorRes(400, "Cart is empty.")
    ELSE IF CustomerIncomplete(body.customer)
    THEN ErrorRes(400, "Missing required customer information.")
    ELSE IF Len(CartLines(body.cartItems.a)) = 0
    THEN ErrorRes(400, "Cart items are invalid.")
    ELSE NoRes

\* `ORD-${Date.now()}`
OrderId(ms) == [t |-> "string", s |-> "ORD-", ms |-> ms]

\* the order object built after the read, at millisecond ms
NewOrder(body, ms) ==
    LET items == CartLines(body.cartItems.a)
        customer == body.customer
    IN  [id |-> OrderId(ms),
         createdAt |-> ms,
         total |-> LinesTotal(items),
         items |-> items,
         customer |->
            [name |-> Field(customer, "name"),
             email |-> Field(customer, "email"),
             phone |-> Or(Field(customer, "phone"), Str("")),
             address |-> Field(customer, "address"),
             city |-> Or(Field(customer, "city"), Str("")),
             postalCode |-> Or(Field(customer, "postalCode"), Str("")),
             country |-> Or(Field(customer, "country"), Str(""))]]

(* ------------------------------- state -------------------------------- *)
VARIABLES
    USE_BLOB,      \* the backend chosen at process start: remote blob or local file
    env,           \* process.env: VERCEL, PRODUCTION_URL, DASHBOARD_SYNC_SECRET, the
                   \* SMTP settings, and ADMIN_ENABLED derived from it at start
    now,           \* Date.now(), in milliseconds
    faults,        \* storage operations that have failed so far
    ordersStore,   \* the Order Ledger as persisted (orders.json / felicia-orders.json)
    adminsStore,   \* the Admin Directory as persisted
    session,       \* req.session.adminUserId of the dashboard's session
    ckPc,          \* per checkout request: where its handler is
    ckBody,        \* per checkout request: req.body
    ckOrders,      \* per checkout request: the handler's local `orders`
    ckOrder,       \* per checkout request: the handler's local `order`
    ckRes,         \* per checkout request: the response sent
    mailed,        \* per checkout request: the orders passed to sendOrderConfirmationEmail
    mailLog,       \* per checkout request: how each of these calls went
    imPc,          \* the import request: where its handler is
    imData,        \* the import request: the document the origin answered with
    imRes,         \* the import request: the response sent
    lsPc,          \* the order-list request: where its handler is
    lsPending,     \* the checkouts between their read and their write when the list read began
    lsRes,         \* the order-list request: the response sent
    suPc,          \* per signup request: where its handler is
    suBody,        \* per signup request: req.body
    suAdmins,      \* per signup request: the handler's local `admins`
    suRes,         \* per signup request: the response sent
    lgPc,          \* per login request: where its handler is
    lgBody,        \* per login request: req.body
    lgAdmin,       \* per login request: the handler's local `admin`
    lgRes,         \* per login request: the response sent
    exPc,          \* the export request: where its handler is
    exReq,         \* the export request: req.query.secret and the Authorization header
    exOrders,      \* the export request: the handler's local `orders`
    exRes,         \* the export request: the response sent
    cuPc,          \* the customer-export request: where its handler is
    cuRes,         \* the customer-export request: the response sent
    loPc,          \* the logout request: where its handler is
    loRes,         \* the logout request: the response sent
    agOrders,      \* the list of orders handed to the three customer aggregations
    agOut,         \* what each of the three made of it
    dbPc,          \* the dashboard page: where syncFromProductionAndReload is
    dbShown,       \* the dashboard page: the orders displayed
    visibilityState, \* document.visibilityState of the dashboard page
    timers,        \* the interval timers of the dashboard page that are active
    autoRefreshTimer, \* the dashboard page's variable of that name
    stateCart,     \* state.cart of the storefront page
    feliciaCart    \* localStorage item 'feliciaCart' of the storefront

storeVars == <<ordersStore, adminsStore>>
ckVars == <<ckPc, ckBody, ckOrders, ckOrder, ckRes, mailed, mailLog>>
imVars == <<imPc, imData, imRes>>
lsVars == <<lsPc, lsPending, lsRes>>
cfgVars == <<USE_BLOB, env, session>>
suVars == <<suPc, suBody, suAdmins, suRes>>
lgVars == <<lgPc, lgBody, lgAdmin, lgRes>>
auVars == <<suVars, lgVars>>
exVars == <<exPc, exReq, exOrders, exRes>>
cuVars == <<cuPc, cuRes>>
loVars == <<loPc, loRes>>
agVars == <<agOrders, agOut>>
dbVars == <<dbPc, dbShown, visibilityState, timers, autoRefreshTimer>>
sfVars == <<stateCart, feliciaCart>>
vars == <<cfgVars, now, faults, storeVars, ckVars, imVars, lsVars, auVars, exVars, cuVars, loVars, agVars, dbVars, sfVars>>

Checkouts == 1 .. NumCheckouts
Signups == 1 .. NumSignups
Logins == 1 .. NumLogins

(* ------------------------------- data --------------------------------- *)
ValidCustomer(email) ==
    Obj([name |-> Str("A"), email |-> Str(email), phone |-> Undef,
         address |-> Str("1 Main St"), city |-> Undef, postalCode |-> Undef,
         country |-> Undef])

CartEntry(productId, quantity, price) ==
    [productId |-> productId, quantity |-> quantity, price |-> price,
     size |-> Undef, color |-> Undef]

\* an order and an account already in the local store when the process starts
LocalOrder ==
    NewOrder([cartItems |-> Arr(<<CartEntry("p2", Num(Whole(1)), Undef)>>),
              customer |-> ValidCustomer("old@x.com")], 0)
\* `admin-${Date.now()}`
AdminId(ms) == [t |-> "string", s |-> "admin-", ms |-> ms]
LocalAdmin ==
    [id |-> AdminId(0), name |-> "Local", email |-> "local@x.com",
     passwordHash |-> <<"hash", "pw">>, createdAt |-> 0]

InitialOrders == <<LocalOrder>>
InitialAdmins == <<LocalAdmin>>

\* what the origin's export serves
OriginOrders ==
    <<NewOrder([cartItems |-> Arr(<<CartEntry("p1", Num(Whole(3)), Undef)>>),
                customer |-> ValidCustomer("prod@x.com")], 0)>>
OriginAdmins ==
    <<[id |-> AdminId(0), name |-> "Prod", email |-> "prod@x.com",
       passwordHash |-> <<"hash", "pw">>, createdAt |-> 0]>>

\* the request bodies of the concurrent specification: valid carts and customers
RaceBodies ==
    {[cartItems |-> Arr(<<CartEntry("p1", Num(Whole(2)), Undef)>>),
      customer |-> ValidCustomer("a@x.com")]}

(* --------------------------- record store ----------------------------- *)
\* JSON.stringify of a number: NaN is written as null
JSONNumber(x) == IF x.t = "NaN" THEN Null ELSE x
\* JSON.stringify(orders) as JSON.parse reads it back
JSONOrders(orders) ==
    [i \in DOMAIN orders |->
        LET o == orders[i]
        IN  [o EXCEPT !.total = JSONNumber(o.total),
                      !.items = [k \in DOMAIN o.items |->
                                    [o.items[k] EXCEPT !.price = JSONNumber(o.items[k].price),
                                                       !.lineTotal = JSONNumber(o.items[k].lineTotal)]]]]

\* a remote read that answers with the document whether or not the get failed
readBlobJsonStale(doc, ok) == doc

\* a storage operation either succeeds or, while the fault budget lasts, fails
Outcomes == IF faults < MaxFaults THEN {TRUE, FALSE} ELSE {TRUE}
Fault(ok) == faults' = IF ok THEN faults ELSE faults + 1

\* readBlobJson(pathname, []): the document, or the fallback on any failure
readBlobJson(doc, ok) == IF ok THEN doc ELSE <<>>

\* writeJson(filePath, data): the file after the call; a failure is logged and swallowed
writeJson(file, data, ok) == IF ok THEN data ELSE file

(* -------------------------- confirmation mail ------------------------- *)
\* getMailTransporter(): null unless SMTP_HOST, SMTP_USER and SMTP_PASS are set
getMailTransporter == env.SMTP

\* value.toFixed(2) exists on numbers only (NaN included); on any other value the
\* call is a TypeError
ToFixedThrows(value) == value.t \notin {"number", "NaN"}

\* buildOrderEmailText(order) and buildOrderEmailHtml(order), evaluated while the
\* argument of sendMail is built: they throw when a toFixed call does
BuildThrows(order) ==
    \/ \E k \in DOMAIN order.items :
            ToFixedThrows(order.items[k].price) \/ ToFixedThrows(order.items[k].lineTotal)
    \/ ToFixedThrows(order.total)

\* sendOrderConfirmationEmail(order): how the call goes. "skipped": no transporter
\* or no recipient; "threw": the exception leaves the function; "sent" / "failed":
\* the message was handed to the transporter, whose callback logs the result
sendOrderConfirmationEmail(order, sent) ==
    IF ~getMailTransporter THEN "skipped"
    ELSE IF ~Truthy(order.customer.email) THEN "skipped"
    ELSE IF BuildThrows(order) THEN "threw"
    ELSE IF sent THEN "sent" ELSE "failed"

(* ------------------------------ checkout ------------------------------ *)
\* POST /api/checkout on the local backend: readOrders and writeOrders are
\* synchronous file calls, so the handler runs from request to response in one step
\* (an exception of the mail call leaves the handler before res.json)
CheckoutLocal(p, body, ok, sent) ==
    /\ ~USE_BLOB
    /\ ckPc[p] = "idle"
    /\ ckBody' = [ckBody EXCEPT ![p] = body]
    /\ IF CheckoutRejection(body) # NoRes
       THEN /\ ckRes' = [ckRes EXCEPT ![p] = CheckoutRejection(body)]
            /\ ckPc' = [ckPc EXCEPT ![p] = "done"]
            /\ ok /\ sent
            /\ UNCHANGED <<faults, ordersStore, ckOrders, ckOrder, mailed, mailLog>>
       ELSE LET order == NewOrder(body, now)
                orders == Append(ordersStore, order)
                mail == sendOrderConfirmationEmail(order, sent)
            IN  /\ ckOrders' = [ckOrders EXCEPT ![p] = orders]
                /\ ckOrder' = [ckOrder EXCEPT ![p] = order]
                /\ ordersStore' = writeJson(ordersStore, JSONOrders(orders), ok)
                /\ Fault(ok)
                /\ mailed' = [mailed EXCEPT ![p] = Append(@, order)]
                /\ mailLog' = [mailLog EXCEPT ![p] = Append(@, mail)]
                /\ IF mail = "threw"
                   THEN /\ ckPc' = [ckPc EXCEPT ![p] = "threw"]
                        /\ UNCHANGED ckRes
                   ELSE /\ ckPc' = [ckPc EXCEPT ![p] = "done"]
                        /\ ckRes' = [ckRes EXCEPT ![p] = CheckoutOk(order.id)]
    /\ UNCHANGED <<cfgVars, now, adminsStore, imVars, lsVars, auVars, exVars, cuVars, loVars, agVars, dbVars, sfVars>>

\* POST /api/checkout on the blob backend, up to `await readOrders()`
CheckoutStart(p, body) ==
    /\ USE_BLOB
    /\ ckPc[p] = "idle"
    /\ ckBody' = [ckBody EXCEPT ![p] = body]
    /\ IF CheckoutRejection(body) # NoRes
       THEN /\ ckRes' = [ckRes EXCEPT ![p] = CheckoutRejection(body)]
            /\ ckPc' = [ckPc EXCEPT ![p] = "done"]
       ELSE /\ ckPc' = [ckPc EXCEPT ![p] = "read"]
            /\ UNCHANGED ckRes
    /\ UNCHANGED <<cfgVars, now, faults, storeVars, ckOrders, ckOrder, mailed, mailLog,
                   imVars, lsVars, auVars, exVars, cuVars, loVars, agVars, dbVars, sfVars>>

\* the blob read resumes the handler: the order gets its identifier and is
\* pushed onto the snapshot read, and `await writeOrders(orders)` starts
CheckoutRead(p, ok) ==
    /\ ckPc[p] = "read"
    /\ LET order == NewOrder(ckBody[p], now)
       IN  /\ ckOrder' = [ckOrder EXCEPT ![p] = order]
           /\ ckOrders' = [ckOrders EXCEPT ![p] =
                              Append(readBlobJson(ordersStore, ok), order)]
    /\ Fault(ok)
    /\ ckPc' = [ckPc EXCEPT ![p] = "write"]
    /\ UNCHANGED <<cfgVars, now, storeVars, ckBody, ckRes, mailed, mailLog, imVars, lsVars, auVars, exVars, cuVars, loVars, agVars, dbVars, sfVars>>

\* the blob write resumes the handler: the mail is triggered and the response
\* sent; a failed write, or an exception of the mail call, throws out of the
\* handler, which sends nothing
CheckoutWrite(p, ok, sent) ==
    /\ ckPc[p] = "write"
    /\ Fault(ok)
    /\ IF ok
       THEN LET mail == sendOrderConfirmationEmail(ckOrder[p], sent)
            IN  /\ ordersStore' = JSONOrders(ckOrders[p])
                /\ mailed' = [mailed EXCEPT ![p] = Append(@, ckOrder[p])]
                /\ mailLog' = [mailLog EXCEPT ![p] = Append(@, mail)]
                /\ IF mail = "threw"
                   THEN /\ ckPc' = [ckPc EXCEPT ![p] = "threw"]
                        /\ UNCHANGED ckRes
                   ELSE /\ ckPc' = [ckPc EXCEPT ![p] = "done"]
                        /\ ckRes' = [ckRes EXCEPT ![p] = CheckoutOk(ckOrder[p].id)]
       ELSE /\ ckPc' = [ckPc EXCEPT ![p] = "threw"]
            /\ sent
            /\ UNCHANGED <<ordersStore, mailed, mailLog, ckRes>>
    /\ UNCHANGED <<cfgVars, now, adminsStore, ckBody, ckOrders, ckOrder, imVars, lsVars, auVars, exVars, cuVars, loVars, agVars, dbVars, sfVars>>

\* a millisecond passes
Tick ==
    /\ now < MaxClock
    /\ now' = now + 1
    /\ UNCHANGED <<cfgVars, faults, storeVars, ckVars, imVars, lsVars, auVars, exVars, cuVars, loVars, agVars, dbVars, sfVars>>

(* ----------------------------- order list ----------------------------- *)
\* the Host header of a request: the machine itself, or the public name
Hosts == {"localhost", "shop.example"}
isLocalRequest(host) == host \in {"localhost", "127.0.0.1"}

\* blockAdminRoute: the admin routes are served when admin is enabled or the
\* request is local; otherwise the request is answered 404
blockAdminRoute(host) == env.ADMIN_ENABLED \/ isLocalRequest(host)
NotFound == ErrorRes(404, "Not found.")

\* requireAdminApi calling next() whatever the session holds
requireAdminApiOpen(adminUserId) == TRUE
\* requireAdminApi: req.session && req.session.adminUserId
requireAdminApi(adminUserId) == Truthy(adminUserId)

\* orders.sort((a, b) => new Date(a.createdAt) - new Date(b.createdAt)): oldest first
RECURSIVE InsertAsc(_, _)
InsertAsc(sorted, o) ==
    IF sorted = <<>> THEN <<o>>
    ELSE IF Head(sorted).createdAt <= o.createdAt
    THEN <<Head(sorted)>> \o InsertAsc(Tail(sorted), o)
    ELSE <<o>> \o sorted
RECURSIVE SortAsc(_)
SortAsc(orders) ==
    IF orders = <<>> THEN <<>>
    ELSE InsertAsc(SortAsc(SubSeq(orders, 1, Len(orders) - 1)), orders[Len(orders)])

\* orders.sort((a, b) => new Date(b.createdAt) - new Date(a.createdAt)):
\* a stable sort, newest first
RECURSIVE InsertDesc(_, _)
InsertDesc(sorted, o) ==
    IF sorted = <<>> THEN <<o>>
    ELSE IF Head(sorted).createdAt >= o.createdAt
    THEN <<Head(sorted)>> \o InsertDesc(Tail(sorted), o)
    ELSE <<o>> \o sorted
RECURSIVE SortDesc(_)
SortDesc(orders) ==
    IF orders = <<>> THEN <<>>
    ELSE InsertDesc(SortDesc(SubSeq(orders, 1, Len(orders) - 1)), orders[Len(orders)])

NotAuthenticated == ErrorRes(401, "Not authenticated as admin.")
ListOk(orders) == [status |-> 200, orders |-> orders]

\* the checkouts that have read the ledger and not yet written it
InCycle == {p \in Checkouts : ckPc[p] = "write"}

\* GET /api/orders on the local backend
ListLocal(host) ==
    /\ ~USE_BLOB
    /\ lsPc = "idle"
    /\ lsPc' = "done"
    /\ lsPending' = InCycle
    /\ lsRes' = IF ~blockAdminRoute(host) THEN NotFound
                ELSE IF requireAdminApi(session)
                THEN ListOk(SortDesc(ordersStore))
                ELSE NotAuthenticated
    /\ UNCHANGED <<cfgVars, now, faults, storeVars, ckVars, imVars, auVars, exVars, cuVars, loVars, agVars, dbVars, sfVars>>

\* GET /api/orders on the blob backend, up to `await readOrders()`
ListStart(host) ==
    /\ USE_BLOB
    /\ lsPc = "idle"
    /\ lsPending' = InCycle
    /\ IF ~blockAdminRoute(host)
       THEN lsPc' = "done" /\ lsRes' = NotFound
       ELSE IF requireAdminApi(session)
       THEN lsPc' = "read" /\ UNCHANGED lsRes
       ELSE lsPc' = "done" /\ lsRes' = NotAuthenticated
    /\ UNCHANGED <<cfgVars, now, faults, storeVars, ckVars, imVars, auVars, exVars, cuVars, loVars, agVars, dbVars, sfVars>>

\* the blob read resumes the handler, which sorts and responds
ListRead(ok) ==
    /\ lsPc = "read"
    /\ Fault(ok)
    /\ lsPc' = "done"
    /\ lsRes' = ListOk(SortDesc(readBlobJson(ordersStore, ok)))
    /\ UNCHANGED <<cfgVars, now, storeVars, ckVars, imVars, lsPending, auVars, exVars, cuVars, loVars, agVars, dbVars, sfVars>>

(* ------------------------------- export ------------------------------- *)
\* res.json({ orders: orders || [], admins: admins || [] })
ExportDocument(orders, admins) == [status |-> 200, orders |-> Arr(orders), admins |-> Arr(admins)]

\* an Authorization header: the string prefix followed by s
Authorization(prefix, s) == [t |-> "string", prefix |-> prefix, s |-> s]

\* header.replace(/^Bearer\s+/i, ''): a leading "Bearer " in any letter case is
\* cut off; any other header stays what it is
StripBearer(header) ==
    IF header.prefix \in {"", "Bearer ", "bearer "} THEN Str(header.s) ELSE header

\* req.query.secret || (req.headers.authorization || '').replace(/^Bearer\s+/i, '')
Provided(query, authorization) ==
    Or(query, IF Truthy(authorization) THEN StripBearer(authorization) ELSE Str(""))

\* a test that lets a caller through who supplies nothing
UnauthorizedWhenSupplied(secret, provided) == Truthy(provided) /\ provided # secret
\* !secret || provided !== secret
Unauthorized(secret, provided) == ~Truthy(secret) \/ provided # secret

\* GET /api/dashboard-sync on the local backend
ExportLocal(query, authorization) ==
    /\ ~USE_BLOB
    /\ exPc = "idle"
    /\ exPc' = "done"
    /\ exReq' = [query |-> query, authorization |-> authorization]
    /\ exRes' = IF Unauthorized(env.DASHBOARD_SYNC_SECRET, Provided(query, authorization))
                THEN ErrorRes(401, "Unauthorized")
                ELSE ExportDocument(ordersStore, adminsStore)
    /\ UNCHANGED <<cfgVars, now, faults, storeVars, ckVars, imVars, lsVars, auVars, exOrders, cuVars, loVars, agVars, dbVars, sfVars>>

\* GET /api/dashboard-sync on the blob backend, up to `await readOrders()`
ExportStart(query, authorization) ==
    /\ USE_BLOB
    /\ exPc = "idle"
    /\ exReq' = [query |-> query, authorization |-> authorization]
    /\ IF Unauthorized(env.DASHBOARD_SYNC_SECRET, Provided(query, authorization))
       THEN exPc' = "done" /\ exRes' = ErrorRes(401, "Unauthorized")
       ELSE exPc' = "readOrders" /\ UNCHANGED exRes
    /\ UNCHANGED <<cfgVars, now, faults, storeVars, ckVars, imVars, lsVars, auVars, exOrders, cuVars, loVars, agVars, dbVars, sfVars>>

\* the orders blob read resumes the handler: `await readAdmins()` starts
ExportReadOrders(ok) ==
    /\ exPc = "readOrders"
    /\ Fault(ok)
    /\ exOrders' = readBlobJson(ordersStore, ok)
    /\ exPc' = "readAdmins"
    /\ UNCHANGED <<cfgVars, now, storeVars, ckVars, imVars, lsVars, auVars, exReq, exRes, cuVars, loVars, agVars, dbVars, sfVars>>

\* the admins blob read resumes the handler, which responds
ExportReadAdmins(ok) ==
    /\ exPc = "readAdmins"
    /\ Fault(ok)
    /\ exRes' = ExportDocument(exOrders, readBlobJson(adminsStore, ok))
    /\ exPc' = "done"
    /\ UNCHANGED <<cfgVars, now, storeVars, ckVars, imVars, lsVars, auVars, exReq, exOrders, cuVars, loVars, agVars, dbVars, sfVars>>

(* ------------------------ import from production ---------------------- *)
ImportOk(orders, admins) ==
    [status |-> 200, success |-> TRUE, orders |-> Len(orders), admins |-> Len(admins)]

\* the early returns without the test of the configuration
ImportRejectionUnconfigured(host) ==
    IF ~blockAdminRoute(host)
    THEN NotFound
    ELSE IF ~requireAdminApi(session)
    THEN NotAuthenticated
    ELSE IF env.VERCEL
    THEN ErrorRes(400, "Sync from production is only available when running the dashboard locally.")
    ELSE NoRes

\* the early returns without the test of the hosted environment
ImportRejectionAnywhere(host) ==
    IF ~blockAdminRoute(host)
    THEN NotFound
    ELSE IF ~requireAdminApi(session)
    THEN NotAuthenticated
    ELSE IF ~env.PRODUCTION_URL \/ ~Truthy(env.DASHBOARD_SYNC_SECRET)
    THEN ErrorRes(400, "Set PRODUCTION_URL and DASHBOARD_SYNC_SECRET in .env.local to sync from production.")
    ELSE NoRes

\* the handler's early returns, in order; NoRes when the request passes them
ImportRejection(host) ==
    IF ~blockAdminRoute(host)
    THEN NotFound
    ELSE IF ~requireAdminApi(session)
    THEN NotAuthenticated
    ELSE IF env.VERCEL
    THEN ErrorRes(400, "Sync from production is only available when running the dashboard locally.")
    ELSE IF ~env.PRODUCTION_URL \/ ~Truthy(env.DASHBOARD_SYNC_SECRET)
    THEN ErrorRes(400, "Set PRODUCTION_URL and DASHBOARD_SYNC_SECRET in .env.local to sync from production.")
    ELSE NoRes

\* POST /api/admin/sync-from-production, up to `await fetch(url)`
ImportStart(host) ==
    /\ imPc = "idle"
    /\ IF ImportRejection(host) # NoRes
       THEN imPc' = "done" /\ imRes' = ImportRejection(host)
       ELSE imPc' = "fetch" /\ UNCHANGED imRes
    /\ UNCHANGED <<cfgVars, now, faults, storeVars, ckVars, imData, lsVars, auVars, exVars, cuVars, loVars, agVars, dbVars, sfVars>>

\* the fetch fails: the origin answers with a non-OK status, or the call throws
ImportFetchFailed(status) ==
    /\ imPc = "fetch"
    /\ imPc' = "done"
    /\ imRes' = ErrorRes(status, "Sync failed")
    /\ UNCHANGED <<cfgVars, now, faults, storeVars, ckVars, imData, lsVars, auVars, exVars, cuVars, loVars, agVars, dbVars, sfVars>>

\* the origin answers 200 with its export document, built by its own export
\* handler from its blob reads; `await response.json()` starts
ImportResponse(okOrders, okAdmins) ==
    /\ imPc = "fetch"
    /\ okOrders \/ okAdmins
    /\ Fault(okOrders /\ okAdmins)
    /\ imData' = ExportDocument(readBlobJson(OriginOrders, okOrders),
                                readBlobJson(OriginAdmins, okAdmins))
    /\ imPc' = "json"
    /\ UNCHANGED <<cfgVars, now, storeVars, ckVars, imRes, lsVars, auVars, exVars, cuVars, loVars, agVars, dbVars, sfVars>>

\* Array.isArray(data.orders) ? data.orders : []
ArrayOrEmpty(x) == IF IsArray(x) THEN x.a ELSE <<>>

\* the document is parsed on the local backend: both files are written in the
\* same step (synchronous calls), each failure swallowed by writeJson
ImportFetchedLocal(okOrders, okAdmins) ==
    /\ ~USE_BLOB
    /\ imPc = "json"
    /\ okOrders \/ okAdmins
    /\ LET orders == ArrayOrEmpty(imData.orders)
           admins == ArrayOrEmpty(imData.admins)
       IN  /\ ordersStore' = writeJson(ordersStore, JSONOrders(orders), okOrders)
           /\ adminsStore' = writeJson(adminsStore, admins, okAdmins)
           /\ imRes' = ImportOk(orders, admins)
    /\ Fault(okOrders /\ okAdmins)
    /\ imPc' = "done"
    /\ UNCHANGED <<cfgVars, now, ckVars, imData, lsVars, auVars, exVars, cuVars, loVars, agVars, dbVars, sfVars>>

\* the document is parsed on the blob backend: `await writeOrders(orders)` starts
ImportFetchedBlob ==
    /\ USE_BLOB
    /\ imPc = "json"
    /\ imPc' = "putOrders"
    /\ UNCHANGED <<cfgVars, now, faults, storeVars, ckVars, imData, imRes, lsVars,
                   auVars, exVars, cuVars, loVars, agVars, dbVars, sfVars>>

\* the orders blob write resumes the handler: `await writeAdmins(admins)` starts,
\* or the failure is caught and answered with 500
ImportPutOrders(ok) ==
    /\ imPc = "putOrders"
    /\ Fault(ok)
    /\ IF ok
       THEN /\ ordersStore' = JSONOrders(ArrayOrEmpty(imData.orders))
            /\ imPc' = "putAdmins"
            /\ UNCHANGED imRes
       ELSE /\ imPc' = "done"
            /\ imRes' = ErrorRes(500, "Sync failed")
            /\ UNCHANGED ordersStore
    /\ UNCHANGED <<cfgVars, now, adminsStore, ckVars, imData, lsVars, auVars, exVars, cuVars, loVars, agVars, dbVars, sfVars>>

\* the admins blob write resumes the handler, which responds
ImportPutAdmins(ok) ==
    /\ imPc = "putAdmins"
    /\ Fault(ok)
    /\ imPc' = "done"
    /\ IF ok
       THEN /\ adminsStore' = ArrayOrEmpty(imData.admins)
            /\ imRes' = ImportOk(ArrayOrEmpty(imData.orders), ArrayOrEmpty(imData.admins))
       ELSE /\ imRes' = ErrorRes(500, "Sync failed")
            /\ UNCHANGED adminsStore
    /\ UNCHANGED <<cfgVars, now, ordersStore, ckVars, imData, lsVars, auVars, exVars, cuVars, loVars, agVars, dbVars, sfVars>>

(* ------------------------------- signup ------------------------------- *)
\* String.prototype.toLowerCase on the e-mail addresses of the model
toLowerCase(s) ==
    CASE s = "A@x.com" -> "a@x.com"
      [] s = "LOCAL@x.com" -> "local@x.com"
      [] OTHER -> s

\* admins.find((a) => a.email === email): the letter case has to agree
FindByEmailExact(admins, email) ==
    IF \E i \in DOMAIN admins : admins[i].email = email.s
    THEN CHOOSE i \in DOMAIN admins :
            /\ admins[i].email = email.s
            /\ \A j \in DOMAIN admins : admins[j].email = email.s => i <= j
    ELSE 0

\* a find that never matches
FindByEmailNever(admins, email) == 0

\* admins.find((a) => a.email.toLowerCase() === email.toLowerCase()): the index
\* of the first account of that e-mail address, 0 when there is none
FindByEmail(admins, email) ==
    LET same(i) == toLowerCase(admins[i].email) = toLowerCase(email.s)
    IN  IF \E i \in DOMAIN admins : same(i)
        THEN CHOOSE i \in DOMAIN admins : same(i) /\ \A j \in DOMAIN admins : same(j) => i <= j
        ELSE 0

\* a comparison that accepts any password
bcryptCompareAny(password, hash) == TRUE

\* bcrypt.hash(password, 10) and bcrypt.compare(password, hash): the hash is
\* salted and one-way; compare tells whether it was made from the password
bcryptHash(password) == <<"hash", password.s>>
bcryptCompare(password, hash) == hash = <<"hash", password.s>>

\* !name || !email || !password
SignupIncomplete(body) ==
    ~Truthy(body.name) \/ ~Truthy(body.email) \/ ~Truthy(body.password)

SignupOk == [status |-> 200, success |-> TRUE]
DuplicateEmail == ErrorRes(409, "An account with this email already exists.")

\* an account object that keeps the password as it was typed
NewAdminPlain(body, ms) ==
    [id |-> AdminId(ms), name |-> body.name.s, email |-> body.email.s,
     passwordHash |-> <<"plain", body.password.s>>, createdAt |-> ms]

\* the account object built after the hash, at millisecond ms
NewAdmin(body, ms) ==
    [id |-> AdminId(ms), name |-> body.name.s, email |-> body.email.s,
     passwordHash |-> bcryptHash(body.password), createdAt |-> ms]

\* POST /api/admin/signup up to its first real suspension: `await readAdmins()`
\* on the blob backend; on the local backend the read is synchronous and the
\* handler goes on to the duplicate test and `await bcrypt.hash(password, 10)`
SignupStart(r, host, body) ==
    /\ suPc[r] = "idle"
    /\ suBody' = [suBody EXCEPT ![r] = body]
    /\ IF ~blockAdminRoute(host)
       THEN /\ suPc' = [suPc EXCEPT ![r] = "done"]
            /\ suRes' = [suRes EXCEPT ![r] = NotFound]
            /\ UNCHANGED suAdmins
       ELSE IF SignupIncomplete(body)
       THEN /\ suPc' = [suPc EXCEPT ![r] = "done"]
            /\ suRes' = [suRes EXCEPT ![r] =
                            ErrorRes(400, "Name, email and password are required.")]
            /\ UNCHANGED suAdmins
       ELSE IF USE_BLOB
       THEN /\ suPc' = [suPc EXCEPT ![r] = "read"]
            /\ UNCHANGED <<suRes, suAdmins>>
       ELSE IF FindByEmail(adminsStore, body.email) # 0
       THEN /\ suPc' = [suPc EXCEPT ![r] = "done"]
            /\ suRes' = [suRes EXCEPT ![r] = DuplicateEmail]
            /\ UNCHANGED suAdmins
       ELSE /\ suPc' = [suPc EXCEPT ![r] = "hash"]
            /\ suAdmins' = [suAdmins EXCEPT ![r] = adminsStore]
            /\ UNCHANGED suRes
    /\ UNCHANGED <<cfgVars, now, faults, storeVars, ckVars, imVars, lsVars, lgVars, exVars, cuVars, loVars, agVars, dbVars, sfVars>>

\* the blob read resumes the handler: the duplicate test, then
\* `await bcrypt.hash(password, 10)`
SignupRead(r, ok) ==
    /\ suPc[r] = "read"
    /\ Fault(ok)
    /\ LET admins == readBlobJson(adminsStore, ok)
       IN  IF FindByEmail(admins, suBody[r].email) # 0
           THEN /\ suPc' = [suPc EXCEPT ![r] = "done"]
                /\ suRes' = [suRes EXCEPT ![r] = DuplicateEmail]
                /\ UNCHANGED suAdmins
           ELSE /\ suPc' = [suPc EXCEPT ![r] = "hash"]
                /\ suAdmins' = [suAdmins EXCEPT ![r] = admins]
                /\ UNCHANGED suRes
    /\ UNCHANGED <<cfgVars, now, storeVars, ckVars, imVars, lsVars, suBody, lgVars, exVars, cuVars, loVars, agVars, dbVars, sfVars>>

\* the hash resumes the handler on the local backend: the account is pushed onto
\* the snapshot read, the file written (a failure swallowed by writeJson), the
\* session given the identity and the response sent
SignupHashedLocal(r, ok) ==
    /\ ~USE_BLOB
    /\ suPc[r] = "hash"
    /\ LET admin == NewAdmin(suBody[r], now)
           admins == Append(suAdmins[r], admin)
       IN  /\ suAdmins' = [suAdmins EXCEPT ![r] = admins]
           /\ adminsStore' = writeJson(adminsStore, admins, ok)
           /\ session' = admin.id
    /\ Fault(ok)
    /\ suPc' = [suPc EXCEPT ![r] = "done"]
    /\ suRes' = [suRes EXCEPT ![r] = SignupOk]
    /\ UNCHANGED <<USE_BLOB, env, now, ordersStore, ckVars, imVars, lsVars, suBody,
                   lgVars, exVars, cuVars, loVars, agVars, dbVars, sfVars>>

\* the hash resumes the handler on the blob backend: the account is pushed onto
\* the snapshot read and `await writeAdmins(admins)` starts
SignupHashedBlob(r) ==
    /\ USE_BLOB
    /\ suPc[r] = "hash"
    /\ suAdmins' = [suAdmins EXCEPT ![r] = Append(@, NewAdmin(suBody[r], now))]
    /\ suPc' = [suPc EXCEPT ![r] = "write"]
    /\ UNCHANGED <<cfgVars, now, faults, storeVars, ckVars, imVars, lsVars, suBody, suRes,
                   lgVars, exVars, cuVars, loVars, agVars, dbVars, sfVars>>

\* the blob write resumes the handler: the session is given the identity and the
\* response sent; a failed write throws out of the handler, which sends nothing
SignupWrite(r, ok) ==
    /\ suPc[r] = "write"
    /\ Fault(ok)
    /\ IF ok
       THEN /\ adminsStore' = suAdmins[r]
            /\ session' = suAdmins[r][Len(suAdmins[r])].id
            /\ suRes' = [suRes EXCEPT ![r] = SignupOk]
            /\ suPc' = [suPc EXCEPT ![r] = "done"]
       ELSE /\ suPc' = [suPc EXCEPT ![r] = "threw"]
            /\ UNCHANGED <<adminsStore, session, suRes>>
    /\ UNCHANGED <<USE_BLOB, env, now, ordersStore, ckVars, imVars, lsVars, suBody, suAdmins,
                   lgVars, exVars, cuVars, loVars, agVars, dbVars, sfVars>>

(* -------------------------------- login ------------------------------- *)
\* !email || !password
LoginIncomplete(body) == ~Truthy(body.email) \/ ~Truthy(body.password)

LoginOk == [status |-> 200, success |-> TRUE]
\* an answer that tells the caller that the address has no account
LoginNoAccountTold == ErrorRes(404, "No account with this email.")
\* the answer when no account has the address, and the answer when the password
\* does not match
LoginNoAccount == ErrorRes(401, "Invalid email or password.")
LoginNoMatch == ErrorRes(401, "Invalid email or password.")

\* POST /api/admin/login up to its first real suspension: `await readAdmins()` on
\* the blob backend; on the local backend the read is synchronous and the handler
\* goes on to the lookup and `await bcrypt.compare(...)`
LoginStart(l, host, body) ==
    /\ lgPc[l] = "idle"
    /\ lgBody' = [lgBody EXCEPT ![l] = body]
    /\ IF ~blockAdminRoute(host)
       THEN /\ lgPc' = [lgPc EXCEPT ![l] = "done"]
            /\ lgRes' = [lgRes EXCEPT ![l] = NotFound]
            /\ UNCHANGED lgAdmin
       ELSE IF LoginIncomplete(body)
       THEN /\ lgPc' = [lgPc EXCEPT ![l] = "done"]
            /\ lgRes' = [lgRes EXCEPT ![l] = ErrorRes(400, "Email and password are required.")]
            /\ UNCHANGED lgAdmin
       ELSE IF USE_BLOB
       THEN /\ lgPc' = [lgPc EXCEPT ![l] = "read"]
            /\ UNCHANGED <<lgRes, lgAdmin>>
       ELSE IF FindByEmail(adminsStore, body.email) = 0
       THEN /\ lgPc' = [lgPc EXCEPT ![l] = "done"]
            /\ lgRes' = [lgRes EXCEPT ![l] = LoginNoAccount]
            /\ UNCHANGED lgAdmin
       ELSE /\ lgPc' = [lgPc EXCEPT ![l] = "compare"]
            /\ lgAdmin' = [lgAdmin EXCEPT ![l] =
                              adminsStore[FindByEmail(adminsStore, body.email)]]
            /\ UNCHANGED lgRes
    /\ UNCHANGED <<cfgVars, now, faults, storeVars, ckVars, imVars, lsVars, suVars, exVars, cuVars, loVars, agVars, dbVars, sfVars>>

\* the blob read resumes the handler: the lookup, then `await bcrypt.compare(...)`
LoginRead(l, ok) ==
    /\ lgPc[l] = "read"
    /\ Fault(ok)
    /\ LET admins == readBlobJson(adminsStore, ok)
       IN  IF FindByEmail(admins, lgBody[l].email) = 0
           THEN /\ lgPc' = [lgPc EXCEPT ![l] = "done"]
                /\ lgRes' = [lgRes EXCEPT ![l] = LoginNoAccount]
                /\ UNCHANGED lgAdmin
           ELSE /\ lgPc' = [lgPc EXCEPT ![l] = "compare"]
                /\ lgAdmin' = [lgAdmin EXCEPT ![l] =
                                  admins[FindByEmail(admins, lgBody[l].email)]]
                /\ UNCHANGED lgRes
    /\ UNCHANGED <<cfgVars, now, storeVars, ckVars, imVars, lsVars, suVars, lgBody, exVars, cuVars, loVars, agVars, dbVars, sfVars>>

\* the comparison resumes the handler: on a match the session is given the
\* identity and the response sent
LoginCompared(l) ==
    /\ lgPc[l] = "compare"
    /\ lgPc' = [lgPc EXCEPT ![l] = "done"]
    /\ IF bcryptCompare(lgBody[l].password, lgAdmin[l].passwordHash)
       THEN /\ session' = lgAdmin[l].id
            /\ lgRes' = [lgRes EXCEPT ![l] = LoginOk]
       ELSE /\ lgRes' = [lgRes EXCEPT ![l] = LoginNoMatch]
            /\ UNCHANGED session
    /\ UNCHANGED <<USE_BLOB, env, now, faults, storeVars, ckVars, imVars, lsVars, suVars,
                   lgBody, lgAdmin, exVars, cuVars, loVars, agVars, dbVars, sfVars>>

(* ------------------------------- logout ------------------------------- *)
\* a logout that leaves the session as it is
destroyNothing(sess) == sess

\* req.session.destroy(), or req.session = null with cookie sessions: the
\* session no longer holds an adminUserId
destroy(sess) == Undef

LogoutOk == [status |-> 200, success |-> TRUE]

\* POST /api/admin/logout
Logout(host) ==
    /\ loPc = "idle"
    /\ loPc' = "done"
    /\ IF ~blockAdminRoute(host)
       THEN loRes' = NotFound /\ UNCHANGED session
       ELSE loRes' = LogoutOk /\ session' = destroy(session)
    /\ UNCHANGED <<USE_BLOB, env, now, faults, storeVars, ckVars, imVars, lsVars, auVars,
                   exVars, cuVars, agVars, dbVars, sfVars>>

(* --------------------------- customer export -------------------------- *)
\* order.customer?.k: undefined when the order has no customer
CustomerField(order, k) ==
    IF "t" \in DOMAIN order.customer THEN Undef ELSE order.customer[k]

\* order.customer?.email?.toLowerCase?.() taken as written, without lowering
EmailKeyExact(order) ==
    LET email == CustomerField(order, "email")
    IN  IF email.t = "string" THEN Str(email.s) ELSE Undef

\* order.customer?.email?.toLowerCase?.(): undefined when the customer or the
\* e-mail address is absent, or when the address is not a string
EmailKey(order) ==
    LET email == CustomerField(order, "email")
    IN  IF email.t = "string" THEN Str(toLowerCase(email.s)) ELSE Undef

\* a back-fill that takes every later value
BackFillLatest(existing, order, k) ==
    IF Truthy(CustomerField(order, k)) THEN CustomerField(order, k) ELSE existing[k]

\* if (!existing.name && order.customer?.name) existing.name = order.customer.name
BackFill(existing, order, k) ==
    IF ~Truthy(existing[k]) /\ Truthy(CustomerField(order, k))
    THEN CustomerField(order, k)
    ELSE existing[k]

\* the record made for an e-mail address met for the first time
FirstSeen(order, email) ==
    [name |-> Or(CustomerField(order, "name"), Str("")),
     email |-> email,
     phone |-> Or(CustomerField(order, "phone"), Str("")),
     address |-> Or(CustomerField(order, "address"), Str("")),
     city |-> Or(CustomerField(order, "city"), Str("")),
     postalCode |-> Or(CustomerField(order, "postalCode"), Str("")),
     country |-> Or(CustomerField(order, "country"), Str("")),
     orders |-> 0,
     totalSpend |-> Num(0)]

\* byEmail.get(email): the position of the record in the map, 0 when absent
ByEmailGet(byEmail, email) ==
    IF \E k \in DOMAIN byEmail : byEmail[k].email = email
    THEN CHOOSE k \in DOMAIN byEmail : byEmail[k].email = email
    ELSE 0

\* the body of the loop after `if (!email) continue`, the same text in the
\* three aggregations: the map, kept in insertion order
FoldWith(byEmail, order, email) ==
    LET at == ByEmailGet(byEmail, email)
        existing == IF at = 0 THEN FirstSeen(order, email) ELSE byEmail[at]
        updated ==
            [existing EXCEPT
                !.orders = @ + 1,
                !.totalSpend = Add(@, Or(order.total, Num(0))),
                !.name = BackFill(existing, order, "name"),
                !.phone = BackFill(existing, order, "phone"),
                !.address = BackFill(existing, order, "address"),
                !.city = BackFill(existing, order, "city"),
                !.postalCode = BackFill(existing, order, "postalCode"),
                !.country = BackFill(existing, order, "country")]
    IN  IF ~Truthy(email) THEN byEmail
        ELSE IF at = 0 THEN Append(byEmail, updated)
        ELSE [byEmail EXCEPT ![at] = updated]

\* one turn of `for (const order of orders)` of the server's export
FoldOrder(byEmail, order) == FoldWith(byEmail, order, EmailKey(order))

\* Array.from(byEmail.values()) after the loop over the orders as read
RECURSIVE CustomersByEmail(_)
CustomersByEmail(orders) ==
    IF orders = <<>> THEN <<>>
    ELSE FoldOrder(CustomersByEmail(SubSeq(orders, 1, Len(orders) - 1)), orders[Len(orders)])

\* what a dashboard aggregation ends with: its customers, or a TypeError
Returned(customers) == [threw |-> FALSE, customers |-> customers]
TypeError == [threw |-> TRUE, customers |-> <<>>]
\* the key a dashboard aggregation computes: a value, or a TypeError
Key(email) == [threw |-> FALSE, email |-> email]
KeyTypeError == [threw |-> TRUE, email |-> Undef]

\* order.customer?.email?.toLowerCase(): the call is made on every address that
\* is neither undefined nor null, and is a TypeError on one that is not a string
TableEmailKey(order) ==
    LET email == CustomerField(order, "email")
    IN  IF email.t \in {"undefined", "null"} THEN Key(Undef)
        ELSE IF email.t = "string" THEN Key(Str(toLowerCase(email.s)))
        ELSE KeyTypeError

\* (order.customer && order.customer.email) ? order.customer.email.toLowerCase() : '':
\* the call is made on every truthy address, and is a TypeError on one that is
\* not a string
PdfEmailKey(order) ==
    LET email == CustomerField(order, "email")
    IN  IF ~Truthy(email) THEN Key(Str(""))
        ELSE IF email.t = "string" THEN Key(Str(toLowerCase(email.s)))
        ELSE KeyTypeError

\* updateCustomersTable(orders): the rows of the customers table
RECURSIVE updateCustomersTable(_)
updateCustomersTable(orders) ==
    IF orders = <<>> THEN Returned(<<>>)
    ELSE LET before == updateCustomersTable(SubSeq(orders, 1, Len(orders) - 1))
             order == orders[Len(orders)]
             key == TableEmailKey(order)
         IN  IF before.threw \/ key.threw THEN TypeError
             ELSE Returned(FoldWith(before.customers, order, key.email))

\* aggregateCustomersFromOrders(orders) of the PDF download
RECURSIVE aggregateCustomersFromOrders(_)
aggregateCustomersFromOrders(orders) ==
    IF orders = <<>> THEN Returned(<<>>)
    ELSE LET before == aggregateCustomersFromOrders(SubSeq(orders, 1, Len(orders) - 1))
             order == orders[Len(orders)]
             key == PdfEmailKey(order)
         IN  IF before.threw \/ key.threw THEN TypeError
             ELSE Returned(FoldWith(before.customers, order, key.email))

\* the three aggregations applied to one list of orders
Aggregate(orders) ==
    /\ agOrders' = orders
    /\ agOut' = [server |-> Returned(CustomersByEmail(orders)),
                 table |-> updateCustomersTable(orders),
                 pdf |-> aggregateCustomersFromOrders(orders)]
    /\ UNCHANGED <<cfgVars, now, faults, storeVars, ckVars, imVars, lsVars, auVars, exVars,
                   cuVars, loVars, dbVars, sfVars>>

\* the PDF sent, as the rows it lists
CustomersOk(customers) == [status |-> 200, customers |-> customers]

\* GET /api/export-customers on the local backend
CustomersLocal(host) ==
    /\ ~USE_BLOB
    /\ cuPc = "idle"
    /\ cuPc' = "done"
    /\ cuRes' = IF ~blockAdminRoute(host) THEN NotFound
                ELSE IF requireAdminApi(session)
                THEN CustomersOk(CustomersByEmail(ordersStore))
                ELSE NotAuthenticated
    /\ UNCHANGED <<cfgVars, now, faults, storeVars, ckVars, imVars, lsVars, auVars, exVars, loVars, agVars, dbVars, sfVars>>

\* GET /api/export-customers on the blob backend, up to `await readOrders()`
CustomersStart(host) ==
    /\ USE_BLOB
    /\ cuPc = "idle"
    /\ IF ~blockAdminRoute(host)
       THEN cuPc' = "done" /\ cuRes' = NotFound
       ELSE IF requireAdminApi(session)
       THEN cuPc' = "read" /\ UNCHANGED cuRes
       ELSE cuPc' = "done" /\ cuRes' = NotAuthenticated
    /\ UNCHANGED <<cfgVars, now, faults, storeVars, ckVars, imVars, lsVars, auVars, exVars, loVars, agVars, dbVars, sfVars>>

\* the blob read resumes the handler, which folds the orders and sends the PDF
CustomersRead(ok) ==
    /\ cuPc = "read"
    /\ Fault(ok)
    /\ cuPc' = "done"
    /\ cuRes' = CustomersOk(CustomersByEmail(readBlobJson(ordersStore, ok)))
    /\ UNCHANGED <<cfgVars, now, storeVars, ckVars, imVars, lsVars, auVars, exVars, loVars, agVars, dbVars, sfVars>>

(* --------------------------- specifications --------------------------- *)
InitAuth ==
    /\ suPc = [r \in Signups |-> "idle"]
    /\ suBody = [r \in Signups |-> Undef]
    /\ suAdmins = [r \in Signups |-> <<>>]
    /\ suRes = [r \in Signups |-> NoRes]
    /\ lgPc = [l \in Logins |-> "idle"]
    /\ lgBody = [l \in Logins |-> Undef]
    /\ lgAdmin = [l \in Logins |-> Undef]
    /\ lgRes = [l \in Logins |-> NoRes]

InitExport ==
    /\ exPc = "idle"
    /\ exReq = Undef
    /\ exOrders = <<>>
    /\ exRes = NoRes

InitDashboard ==
    /\ cuPc = "idle"
    /\ cuRes = NoRes
    /\ loPc = "idle"
    /\ loRes = NoRes
    /\ agOrders = <<>>
    /\ agOut = Undef
    /\ dbPc = "unloaded"
    /\ dbShown = Undef
    /\ visibilityState = "visible"
    /\ timers = {}
    /\ autoRefreshTimer = 0
    /\ stateCart = <<>>
    /\ feliciaCart = Undef

InitRequests ==
    /\ now = 1
    /\ faults = 0
    /\ ordersStore = InitialOrders
    /\ adminsStore = InitialAdmins
    /\ ckPc = [p \in Checkouts |-> "idle"]
    /\ ckBody = [p \in Checkouts |-> Undef]
    /\ ckOrders = [p \in Checkouts |-> <<>>]
    /\ ckOrder = [p \in Checkouts |-> Undef]
    /\ ckRes = [p \in Checkouts |-> NoRes]
    /\ mailed = [p \in Checkouts |-> <<>>]
    /\ mailLog = [p \in Checkouts |-> <<>>]
    /\ imPc = "idle"
    /\ imData = Undef
    /\ imRes = NoRes
    /\ lsPc = "idle"
    /\ lsPending = {}
    /\ lsRes = NoRes
    /\ InitAuth
    /\ InitExport
    /\ InitDashboard

\* concurrent requests on either backend
Init ==
    /\ USE_BLOB \in BOOLEAN
    /\ env \in [VERCEL : BOOLEAN, PRODUCTION_URL : {TRUE}, DASHBOARD_SYNC_SECRET : {Str("s3cret")},
               SMTP : {FALSE}, ADMIN_ENABLED : {TRUE}]
    /\ session \in {Undef, LocalAdmin.id}
    /\ InitRequests

Next ==
    \/ \E p \in Checkouts, body \in RaceBodies, ok \in Outcomes, sent \in BOOLEAN :
            CheckoutLocal(p, body, ok, sent)
    \/ \E p \in Checkouts, body \in RaceBodies : CheckoutStart(p, body)
    \/ \E p \in Checkouts, ok \in Outcomes : CheckoutRead(p, ok)
    \/ \E p \in Checkouts, ok \in Outcomes, sent \in BOOLEAN : CheckoutWrite(p, ok, sent)
    \/ Tick
    \/ \E host \in Hosts : ListLocal(host)
    \/ \E host \in Hosts : ListStart(host)
    \/ \E ok \in Outcomes : ListRead(ok)
    \/ \E host \in Hosts : ImportStart(host)
    \/ \E status \in {401, 500} : ImportFetchFailed(status)
    \/ \E okOrders, okAdmins \in Outcomes : ImportResponse(okOrders, okAdmins)
    \/ \E okOrders, okAdmins \in Outcomes : ImportFetchedLocal(okOrders, okAdmins)
    \/ ImportFetchedBlob
    \/ \E ok \in Outcomes : ImportPutOrders(ok)
    \/ \E ok \in Outcomes : ImportPutAdmins(ok)

Spec == Init /\ [][Next]_vars

(* one checkout request over a wide range of request bodies *)
RECURSIVE SeqsUpTo(_, _)
SeqsUpTo(S, n) ==
    IF n = 0 THEN {<<>>}
    ELSE LET shorter == SeqsUpTo(S, n - 1)
         IN  shorter \cup {Append(c, e) : c \in {d \in shorter : Len(d) = n - 1}, e \in S}

\* quantities: absent, non-numeric, numeric string, zero, negative, whole, fractional
Quantities ==
    {Undef, Str("abc"), Str("2"), Num(0), Num(Whole(-1)), Num(Whole(2)), Num(Den + 1)}
\* every quantity on a catalog product, a caller-supplied price on some of them,
\* a second catalog product, the product priced by a string, and an unknown product
CartEntries ==
    {CartEntry("p1", q, Undef) : q \in Quantities}
    \cup {CartEntry("p1", q, Num(Whole(1))) : q \in {Undef, Num(Whole(2))}}
    \cup {CartEntry("p2", q, price) :
            q \in {Num(Whole(2)), Num(Whole(-1))}, price \in {Undef, Num(Whole(1))}}
    \cup {CartEntry("p3", Num(Whole(2)), Undef), CartEntry("zz", Undef, Undef)}
CartValues == {Undef, Str("cart")} \cup {Arr(c) : c \in SeqsUpTo(CartEntries, MaxCart)}
CustomerValues ==
    {Undef, Str("customer")} \cup
    {Obj([name |-> n, email |-> e, phone |-> ph, address |-> a, city |-> Undef,
          postalCode |-> Undef, country |-> Undef]) :
        n \in {Undef, Str(""), Str("A")}, e \in {Undef, Str("a@x.com")},
        ph \in {Undef, Str("555")}, a \in {Undef, Str(""), Str("1 Main St")}}
\* every cart with a complete customer, and every customer with a few carts
CheckoutBodies ==
    [cartItems : CartValues, customer : {ValidCustomer("a@x.com")}]
    \cup [cartItems : {Undef, Arr(<<>>), Arr(<<CartEntry("zz", Undef, Undef)>>),
                       Arr(<<CartEntry("p1", Num(Whole(2)), Undef)>>)},
          customer : CustomerValues]

InitCheckout ==
    /\ USE_BLOB \in BOOLEAN
    /\ env = [VERCEL |-> FALSE, PRODUCTION_URL |-> TRUE, DASHBOARD_SYNC_SECRET |-> Str("s3cret"),
              SMTP |-> FALSE, ADMIN_ENABLED |-> TRUE]
    /\ session = Undef
    /\ InitRequests

NextCheckout ==
    \/ \E body \in CheckoutBodies, ok \in Outcomes, sent \in BOOLEAN :
            CheckoutLocal(1, body, ok, sent)
    \/ \E body \in CheckoutBodies : CheckoutStart(1, body)
    \/ \E ok \in Outcomes : CheckoutRead(1, ok)
    \/ \E ok \in Outcomes, sent \in BOOLEAN : CheckoutWrite(1, ok, sent)

SpecCheckout == InitCheckout /\ [][NextCheckout]_vars

(* checkouts with and without a mail transport, over every catalog product *)
MailBodies ==
    {[cartItems |-> Arr(c), customer |-> ValidCustomer("a@x.com")] :
        c \in {<<CartEntry(id, Num(Whole(2)), Undef)>> : id \in ProductIds}
              \cup {<<CartEntry("p1", Undef, Undef), CartEntry("p3", Undef, Undef)>>}}

InitMail ==
    /\ USE_BLOB \in BOOLEAN
    /\ env \in [VERCEL : {FALSE}, PRODUCTION_URL : {TRUE}, DASHBOARD_SYNC_SECRET : {Str("s3cret")},
               SMTP : BOOLEAN, ADMIN_ENABLED : {TRUE}]
    /\ session = Undef
    /\ InitRequests

NextMail ==
    \/ \E p \in Checkouts, body \in MailBodies, ok \in Outcomes, sent \in BOOLEAN :
            CheckoutLocal(p, body, ok, sent)
    \/ \E p \in Checkouts, body \in MailBodies : CheckoutStart(p, body)
    \/ \E p \in Checkouts, ok \in Outcomes : CheckoutRead(p, ok)
    \/ \E p \in Checkouts, ok \in Outcomes, sent \in BOOLEAN : CheckoutWrite(p, ok, sent)
    \/ Tick

SpecMail == InitMail /\ [][NextMail]_vars

(* signups, concurrent and in sequence *)
SignupBodies ==
    {[name |-> Str("N"), email |-> e, password |-> Str("pw1")] :
        e \in {Undef, Str("a@x.com"), Str("A@x.com"), Str("LOCAL@x.com"), Str("b@x.com")}}

InitSignup ==
    /\ USE_BLOB \in BOOLEAN
    /\ env = [VERCEL |-> FALSE, PRODUCTION_URL |-> TRUE, DASHBOARD_SYNC_SECRET |-> Str("s3cret"),
              SMTP |-> FALSE, ADMIN_ENABLED |-> TRUE]
    /\ session = Undef
    /\ InitRequests

NextSignup ==
    \/ \E r \in Signups, host \in Hosts, body \in SignupBodies : SignupStart(r, host, body)
    \/ \E r \in Signups, ok \in Outcomes : SignupRead(r, ok)
    \/ \E r \in Signups, ok \in Outcomes : SignupHashedLocal(r, ok)
    \/ \E r \in Signups : SignupHashedBlob(r)
    \/ \E r \in Signups, ok \in Outcomes : SignupWrite(r, ok)
    \/ Tick

SpecSignup == InitSignup /\ [][NextSignup]_vars

(* logins with known and unknown addresses, right and wrong passwords *)
LoginBodies ==
    [email : {Undef, Str("local@x.com"), Str("LOCAL@x.com"), Str("a@x.com")},
     password : {Undef, Str("pw"), Str("bad")}]

InitLogin ==
    /\ USE_BLOB \in BOOLEAN
    /\ env \in [VERCEL : {FALSE}, PRODUCTION_URL : {TRUE}, DASHBOARD_SYNC_SECRET : {Str("s3cret")},
               SMTP : {FALSE}, ADMIN_ENABLED : BOOLEAN]
    /\ session = Undef
    /\ InitRequests

NextLogin ==
    \/ \E l \in Logins, host \in Hosts, body \in LoginBodies : LoginStart(l, host, body)
    \/ \E l \in Logins, ok \in Outcomes : LoginRead(l, ok)
    \/ \E l \in Logins : LoginCompared(l)

SpecLogin == InitLogin /\ [][NextLogin]_vars

(* the export and the import, over every configuration of the two *)
ExportQueries == {Undef, Str(""), Str("s3cret"), Str("S3CRET"), Str("other")}
ExportHeaders ==
    {Undef, Authorization("Bearer ", "s3cret"), Authorization("bearer ", "s3cret"),
     Authorization("", "s3cret"), Authorization("Basic ", "s3cret"),
     Authorization("Bearer ", "other")}

InitSync ==
    /\ USE_BLOB \in BOOLEAN
    /\ env \in [VERCEL : BOOLEAN, PRODUCTION_URL : BOOLEAN,
               DASHBOARD_SYNC_SECRET : {Undef, Str(""), Str("s3cret")},
               SMTP : {FALSE}, ADMIN_ENABLED : {TRUE}]
    /\ session \in {Undef, LocalAdmin.id}
    /\ InitRequests

NextSync ==
    \/ \E query \in ExportQueries, authorization \in ExportHeaders :
            ExportLocal(query, authorization)
    \/ \E query \in ExportQueries, authorization \in ExportHeaders :
            ExportStart(query, authorization)
    \/ \E ok \in Outcomes : ExportReadOrders(ok)
    \/ \E ok \in Outcomes : ExportReadAdmins(ok)
    \/ \E host \in Hosts : ImportStart(host)
    \/ \E status \in {401, 500} : ImportFetchFailed(status)
    \/ \E okOrders, okAdmins \in Outcomes : ImportResponse(okOrders, okAdmins)
    \/ \E okOrders, okAdmins \in Outcomes : ImportFetchedLocal(okOrders, okAdmins)
    \/ ImportFetchedBlob
    \/ \E ok \in Outcomes : ImportPutOrders(ok)
    \/ \E ok \in Outcomes : ImportPutAdmins(ok)

SpecSync == InitSync /\ [][NextSync]_vars

(* the order list over ledgers held in any order *)
\* longest ledger of the order-list specification
MaxOrders == 3
\* the orders a ledger may hold: one per millisecond, as checkouts or an import left them
StoredOrders == {NewOrder(body, ms) : body \in RaceBodies, ms \in 0 .. MaxClock}
ListLedgers == SeqsUpTo(StoredOrders, MaxOrders)

InitList ==
    /\ USE_BLOB \in BOOLEAN
    /\ env \in [VERCEL : {FALSE}, PRODUCTION_URL : {TRUE}, DASHBOARD_SYNC_SECRET : {Str("s3cret")},
               SMTP : {FALSE}, ADMIN_ENABLED : BOOLEAN]
    /\ session \in {Undef, LocalAdmin.id}
    /\ now = MaxClock
    /\ faults = 0
    /\ ordersStore \in ListLedgers
    /\ adminsStore = InitialAdmins
    /\ ckPc = [p \in Checkouts |-> "idle"]
    /\ ckBody = [p \in Checkouts |-> Undef]
    /\ ckOrders = [p \in Checkouts |-> <<>>]
    /\ ckOrder = [p \in Checkouts |-> Undef]
    /\ ckRes = [p \in Checkouts |-> NoRes]
    /\ mailed = [p \in Checkouts |-> <<>>]
    /\ mailLog = [p \in Checkouts |-> <<>>]
    /\ imPc = "idle"
    /\ imData = Undef
    /\ imRes = NoRes
    /\ lsPc = "idle"
    /\ lsPending = {}
    /\ lsRes = NoRes
    /\ InitAuth
    /\ InitExport
    /\ InitDashboard

NextList ==
    \/ \E host \in Hosts : ListLocal(host)
    \/ \E host \in Hosts : ListStart(host)
    \/ \E ok \in Outcomes : ListRead(ok)

SpecList == InitList /\ [][NextList]_vars

(* the customer export over ledgers of buyers who order again *)
Buyer(name, email, phone) ==
    Obj([name |-> Str(name), email |-> email, phone |-> phone,
         address |-> Str("1 Main St"), city |-> Undef, postalCode |-> Undef,
         country |-> Undef])

\* orders as checkouts stored them: one buyer under two spellings of the
\* address and three names, a second buyer, and an e-mail address that is a number
CustomerOrders ==
    {NewOrder([cartItems |-> Arr(<<CartEntry("p1", Num(Whole(b[1])), Undef)>>),
               customer |-> b[2]], b[3]) :
        b \in {<<2, Buyer("A", Str("a@x.com"), Undef), 0>>,
               <<3, Buyer("B", Str("A@x.com"), Str("555")), 1>>,
               <<2, Buyer("B", Str("b@x.com"), Undef), 1>>,
               <<2, Buyer("A", Num(Whole(5)), Str("555")), 2>>,
               <<3, Buyer("C", Str("a@x.com"), Str("777")), 2>>}}
CustomerLedgers == SeqsUpTo(CustomerOrders, MaxOrders)

InitCustomers ==
    /\ USE_BLOB \in BOOLEAN
    /\ env \in [VERCEL : {FALSE}, PRODUCTION_URL : {TRUE}, DASHBOARD_SYNC_SECRET : {Str("s3cret")},
               SMTP : {FALSE}, ADMIN_ENABLED : {TRUE}]
    /\ session \in {Undef, LocalAdmin.id}
    /\ now = MaxClock
    /\ faults = 0
    /\ ordersStore \in CustomerLedgers
    /\ adminsStore = InitialAdmins
    /\ ckPc = [p \in Checkouts |-> "idle"]
    /\ ckBody = [p \in Checkouts |-> Undef]
    /\ ckOrders = [p \in Checkouts |-> <<>>]
    /\ ckOrder = [p \in Checkouts |-> Undef]
    /\ ckRes = [p \in Checkouts |-> NoRes]
    /\ mailed = [p \in Checkouts |-> <<>>]
    /\ mailLog = [p \in Checkouts |-> <<>>]
    /\ imPc = "idle"
    /\ imData = Undef
    /\ imRes = NoRes
    /\ lsPc = "idle"
    /\ lsPending = {}
    /\ lsRes = NoRes
    /\ InitAuth
    /\ InitExport
    /\ InitDashboard

NextCustomers ==
    \/ \E host \in Hosts : CustomersLocal(host)
    \/ \E host \in Hosts : CustomersStart(host)
    \/ \E ok \in Outcomes : CustomersRead(ok)

SpecCustomers == InitCustomers /\ [][NextCustomers]_vars

(* one signup, one login and one logout of the dashboard's session, in any order *)
InitSession ==
    /\ USE_BLOB \in BOOLEAN
    /\ env \in [VERCEL : {FALSE}, PRODUCTION_URL : {TRUE}, DASHBOARD_SYNC_SECRET : {Str("s3cret")},
               SMTP : {FALSE}, ADMIN_ENABLED : BOOLEAN]
    /\ session \in {Undef, LocalAdmin.id}
    /\ InitRequests

NextSession ==
    \/ \E host \in Hosts, body \in SignupBodies : SignupStart(1, host, body)
    \/ \E ok \in Outcomes : SignupRead(1, ok)
    \/ \E ok \in Outcomes : SignupHashedLocal(1, ok)
    \/ SignupHashedBlob(1)
    \/ \E ok \in Outcomes : SignupWrite(1, ok)
    \/ \E host \in Hosts, body \in LoginBodies : LoginStart(1, host, body)
    \/ \E ok \in Outcomes : LoginRead(1, ok)
    \/ LoginCompared(1)
    \/ \E host \in Hosts : Logout(host)

SpecSession == InitSession /\ [][NextSession]_vars

(* a logged-in dashboard: its logout, a login, a signup and the admin-only requests *)
InitLogout ==
    /\ USE_BLOB \in BOOLEAN
    /\ env = [VERCEL |-> FALSE, PRODUCTION_URL |-> TRUE, DASHBOARD_SYNC_SECRET |-> Str("s3cret"),
              SMTP |-> FALSE, ADMIN_ENABLED |-> TRUE]
    /\ session = LocalAdmin.id
    /\ InitRequests

NextLogout ==
    \/ \E host \in Hosts : Logout(host)
    \/ \E host \in Hosts, body \in LoginBodies : LoginStart(1, host, body)
    \/ \E ok \in Outcomes : LoginRead(1, ok)
    \/ LoginCompared(1)
    \/ \E host \in Hosts, body \in SignupBodies : SignupStart(1, host, body)
    \/ \E ok \in Outcomes : SignupRead(1, ok)
    \/ \E ok \in Outcomes : SignupHashedLocal(1, ok)
    \/ SignupHashedBlob(1)
    \/ \E ok \in Outcomes : SignupWrite(1, ok)
    \/ \E host \in Hosts : ListLocal(host)
    \/ \E host \in Hosts : ListStart(host)
    \/ \E ok \in Outcomes : ListRead(ok)
    \/ \E host \in Hosts : CustomersLocal(host)
    \/ \E host \in Hosts : CustomersStart(host)
    \/ \E ok \in Outcomes : CustomersRead(ok)
    \/ \E host \in Hosts : ImportStart(host)
    \/ \E status \in {401, 500} : ImportFetchFailed(status)
    \/ \E okOrders, okAdmins \in Outcomes : ImportResponse(okOrders, okAdmins)
    \/ \E okOrders, okAdmins \in Outcomes : ImportFetchedLocal(okOrders, okAdmins)
    \/ ImportFetchedBlob
    \/ \E ok \in Outcomes : ImportPutOrders(ok)
    \/ \E ok \in Outcomes : ImportPutAdmins(ok)

SpecLogout == InitLogout /\ [][NextLogout]_vars

(* a checkout that is resumed whenever the read or write it awaits settles *)
CheckoutFairness ==
    \A p \in Checkouts :
        /\ WF_vars(\E ok \in Outcomes : CheckoutRead(p, ok))
        /\ WF_vars(\E ok \in Outcomes, sent \in BOOLEAN : CheckoutWrite(p, ok, sent))

SpecCheckoutFair == InitCheckout /\ [][NextCheckout]_vars /\ CheckoutFairness

(* --------------------------- the dashboard page ------------------------ *)
\* setInterval(...): the identifier of the new timer; the page sets no other
\* timer, so the last identifier handed out is the one in autoRefreshTimer
setInterval == autoRefreshTimer + 1

\* clearInterval(id)
clearInterval(id) == timers \ {id}

\* the other pages and the not yet loaded page have no visibilitychange listener
Loaded == dbPc \notin {"unloaded", "login"}

\* DOMContentLoaded: the auto-refresh timer is set, the listeners are added and
\* syncFromProductionAndReload(false) posts the sync request
DOMContentLoaded ==
    /\ dbPc = "unloaded"
    /\ autoRefreshTimer' = setInterval
    /\ timers' = timers \cup {setInterval}
    /\ dbPc' = "sync"
    /\ UNCHANGED <<cfgVars, now, faults, storeVars, ckVars, imVars, lsVars, auVars, exVars,
                   cuVars, loVars, agVars, dbShown, visibilityState, sfVars>>

\* the page is hidden or shown; the listener of the loaded dashboard clears the
\* timer in autoRefreshTimer, or sets a new one and keeps it in autoRefreshTimer
visibilitychange(state) ==
    /\ state # visibilityState
    /\ visibilityState' = state
    /\ IF ~Loaded THEN UNCHANGED <<timers, autoRefreshTimer>>
       ELSE IF state = "hidden"
       THEN timers' = clearInterval(autoRefreshTimer) /\ UNCHANGED autoRefreshTimer
       ELSE /\ autoRefreshTimer < MaxTimers
            /\ autoRefreshTimer' = setInterval
            /\ timers' = timers \cup {setInterval}
    /\ UNCHANGED <<cfgVars, now, faults, storeVars, ckVars, imVars, lsVars, auVars, exVars,
                   cuVars, loVars, agVars, dbPc, dbShown, sfVars>>

\* the Refresh button: syncFromProductionAndReload(true) posts the sync request
RefreshClick ==
    /\ dbPc \in {"shown", "stopped", "failed"}
    /\ dbPc' = "sync"
    /\ UNCHANGED <<cfgVars, now, faults, storeVars, ckVars, imVars, lsVars, auVars, exVars,
                   cuVars, loVars, agVars, dbShown, visibilityState, timers, autoRefreshTimer,
                   sfVars>>

\* an active timer fires: syncFromProductionAndReload(false) posts the sync request
AutoRefresh ==
    /\ timers # {}
    /\ dbPc \in {"shown", "stopped", "failed"}
    /\ dbPc' = "sync"
    /\ UNCHANGED <<cfgVars, now, faults, storeVars, ckVars, imVars, lsVars, auVars, exVars,
                   cuVars, loVars, agVars, dbShown, visibilityState, timers, autoRefreshTimer,
                   sfVars>>

\* the page's sync request reaches the server
SyncRequest(host) ==
    /\ dbPc = "sync"
    /\ ImportStart(host)

\* window.location.href = '/admin/login': the page and its timers are gone
ToLogin ==
    /\ dbPc' = "login"
    /\ timers' = {}

\* syncFromProductionAndReload after `await fetch(...)`: 401 leaves for the
\* login page, any other non-OK answer returns, an OK answer calls fetchOrders
SyncAnswered ==
    /\ dbPc = "sync"
    /\ imPc = "done"
    /\ IF imRes.status = 401 THEN ToLogin
       ELSE /\ dbPc' = IF imRes.status \notin 200..299 THEN "stopped" ELSE "orders"
            /\ UNCHANGED timers
    /\ imPc' = "idle"
    /\ imRes' = NoRes
    /\ UNCHANGED <<cfgVars, now, faults, storeVars, ckVars, imData, lsVars, auVars, exVars,
                   cuVars, loVars, agVars, dbShown, visibilityState, autoRefreshTimer, sfVars>>

\* the sync request never reaches the server and fetch rejects: the catch
\* block calls fetchOrders
SyncUnreachable ==
    /\ dbPc = "sync"
    /\ imPc = "idle"
    /\ dbPc' = "orders"
    /\ UNCHANGED <<cfgVars, now, faults, storeVars, ckVars, imVars, lsVars, auVars, exVars,
                   cuVars, loVars, agVars, dbShown, visibilityState, timers, autoRefreshTimer,
                   sfVars>>

\* fetchOrders' request reaches the server
OrdersRequest(host) ==
    /\ dbPc = "orders"
    /\ ListLocal(host) \/ ListStart(host)

\* updateDashboard(orders): updateStats reads order.customer?.email?.toLowerCase()
\* of every order before anything is drawn
updateDashboard(orders) == ~updateCustomersTable(orders).threw

\* fetchOrders after `await fetch('/api/orders')`: 401 leaves for the login
\* page, any other non-OK answer and a TypeError of updateDashboard end in
\* the catch block, else the orders are displayed
fetchOrders ==
    /\ dbPc = "orders"
    /\ lsPc = "done"
    /\ IF lsRes.status = 401 THEN ToLogin /\ UNCHANGED dbShown
       ELSE /\ UNCHANGED timers
            /\ IF lsRes.status \in 200..299 /\ updateDashboard(lsRes.orders)
               THEN dbPc' = "shown" /\ dbShown' = lsRes.orders
               ELSE dbPc' = "failed" /\ UNCHANGED dbShown
    /\ lsPc' = "idle"
    /\ lsRes' = NoRes
    /\ lsPending' = {}
    /\ UNCHANGED <<cfgVars, now, faults, storeVars, ckVars, imVars, auVars, exVars,
                   cuVars, loVars, agVars, visibilityState, autoRefreshTimer, sfVars>>

(* ------------------------- storefront: the cart ------------------------ *)
\* state.cart.filter((i) => i.productId !== productId)
RECURSIVE WithoutProduct(_, _)
WithoutProduct(cart, productId) ==
    IF cart = <<>> THEN <<>>
    ELSE LET rest == WithoutProduct(Tail(cart), productId)
         IN  IF Head(cart).productId # productId THEN <<Head(cart)>> \o rest ELSE rest

\* persistCart(), called by renderCart(): the cart goes to localStorage under
\* 'feliciaCart', and a setItem that throws is ignored
persistCart ==
    \E ok \in Outcomes :
        /\ Fault(ok)
        /\ feliciaCart' = IF ok THEN stateCart' ELSE feliciaCart

\* a findCartItem that finds nothing
findNoCartItem(productId) == 0

\* findCartItem(productId): the place of the first entry of the product in the
\* cart, 0 for undefined
findCartItem(productId) ==
    IF \E i \in DOMAIN stateCart : stateCart[i].productId = productId
    THEN CHOOSE i \in DOMAIN stateCart :
             /\ stateCart[i].productId = productId
             /\ \A j \in 1..(i - 1) : stateCart[j].productId # productId
    ELSE 0

\* the entry addToCart pushes for a product
CartItem(product) ==
    [productId |-> product.id, name |-> product.name, category |-> product.category,
     price |-> product.price, quantity |-> 1,
     size |-> Or(product.size, Str("Medium")), color |-> Or(product.color, Str(""))]

\* addToCart(product); the product is undefined when state.products has none
\* of the button's id
addToCart(product) ==
    /\ IF product = Undef THEN UNCHANGED <<sfVars, faults>>
       ELSE LET existing == findCartItem(product.id)
            IN  /\ IF existing # 0
                   THEN /\ stateCart[existing].quantity < MaxQuantity
                        /\ stateCart' = [stateCart EXCEPT ![existing].quantity = @ + 1]
                   ELSE stateCart' = Append(stateCart, CartItem(product))
                /\ persistCart
    /\ UNCHANGED <<cfgVars, now, storeVars, ckVars, imVars, lsVars, auVars, exVars,
                   cuVars, loVars, agVars, dbVars>>

\* updateCartQuantity(productId, delta)
updateCartQuantity(productId, delta) ==
    /\ LET item == findCartItem(productId)
       IN  IF item = 0 THEN UNCHANGED <<sfVars, faults>>
           ELSE LET quantity == stateCart[item].quantity + delta
                IN  /\ quantity <= MaxQuantity
                    /\ stateCart' =
                           IF quantity <= 0 THEN WithoutProduct(stateCart, productId)
                           ELSE [stateCart EXCEPT ![item].quantity = quantity]
                    /\ persistCart
    /\ UNCHANGED <<cfgVars, now, storeVars, ckVars, imVars, lsVars, auVars, exVars,
                   cuVars, loVars, agVars, dbVars>>

\* removeFromCart(productId)
removeFromCart(productId) ==
    /\ stateCart' = WithoutProduct(stateCart, productId)
    /\ persistCart
    /\ UNCHANGED <<cfgVars, now, storeVars, ckVars, imVars, lsVars, auVars, exVars,
                   cuVars, loVars, agVars, dbVars>>

\* the storefront with an empty cart
InitCart ==
    /\ USE_BLOB \in BOOLEAN
    /\ env = [VERCEL |-> FALSE, PRODUCTION_URL |-> TRUE, DASHBOARD_SYNC_SECRET |-> Str("s3cret"),
              SMTP |-> FALSE, ADMIN_ENABLED |-> TRUE]
    /\ session = Undef
    /\ InitRequests

\* the buttons of the product grid and of the cart
NextCart ==
    \/ \E product \in {Products[i] : i \in DOMAIN Products} \cup {Undef} : addToCart(product)
    \/ \E productId \in ProductIds, delta \in {1, -1} : updateCartQuantity(productId, delta)
    \/ \E productId \in ProductIds : removeFromCart(productId)

SpecCart == InitCart /\ [][NextCart]_vars

(* the dashboard page against the instance that serves it *)
InitPage ==
    /\ USE_BLOB \in BOOLEAN
    /\ env \in [VERCEL : BOOLEAN, PRODUCTION_URL : BOOLEAN,
               DASHBOARD_SYNC_SECRET : {Str("s3cret")},
               SMTP : {FALSE}, ADMIN_ENABLED : {TRUE}]
    /\ session \in {Undef, LocalAdmin.id}
    /\ InitRequests

\* the steps of the browser and of the server that run without the user
PageSteps ==
    \/ DOMContentLoaded
    \/ \E host \in Hosts : SyncRequest(host)
    \/ \E status \in {401, 500} : ImportFetchFailed(status)
    \/ \E okOrders, okAdmins \in Outcomes : ImportResponse(okOrders, okAdmins)
    \/ \E okOrders, okAdmins \in Outcomes : ImportFetchedLocal(okOrders, okAdmins)
    \/ ImportFetchedBlob
    \/ \E ok \in Outcomes : ImportPutOrders(ok)
    \/ \E ok \in Outcomes : ImportPutAdmins(ok)
    \/ SyncAnswered
    \/ \E host \in Hosts : OrdersRequest(host)
    \/ \E ok \in Outcomes : ListRead(ok)
    \/ fetchOrders
    \/ AutoRefresh

NextPage ==
    \/ PageSteps
    \/ SyncUnreachable
    \/ RefreshClick
    \/ \E state \in {"visible", "hidden"} : visibilitychange(state)

SpecPage == InitPage /\ [][NextPage]_vars

\* the page left visible: every request is answered, every answer is handled
\* and the active timer fires
NextRefresh ==
    \/ PageSteps
    \/ SyncUnreachable
    \/ RefreshClick

SpecRefresh == InitPage /\ [][NextRefresh]_vars /\ WF_vars(PageSteps)

(* the three customer aggregations over one list of orders *)
\* orders as stored, and orders without a customer or without an e-mail address
AggregatorOrders ==
    CustomerOrders
    \cup {[o EXCEPT !.customer = Undef] : o \in {LocalOrder}}
    \cup {[o EXCEPT !.customer.email = e] : o \in {LocalOrder}, e \in {Undef, Str("")}}
AggregatorLists == SeqsUpTo(AggregatorOrders, MaxOrders)

InitAggregators ==
    /\ USE_BLOB \in BOOLEAN
    /\ env = [VERCEL |-> FALSE, PRODUCTION_URL |-> TRUE, DASHBOARD_SYNC_SECRET |-> Str("s3cret"),
              SMTP |-> FALSE, ADMIN_ENABLED |-> TRUE]
    /\ session = LocalAdmin.id
    /\ InitRequests

NextAggregators == \E orders \in AggregatorLists : Aggregate(orders)

SpecAggregators == InitAggregators /\ [][NextAggregators]_vars

(* ------------------------------- claims ------------------------------- *)
Succeeded(p) == ckPc[p] = "done" /\ ckRes[p].status = 200
InLedger(order, ledger) == \E i \in DOMAIN ledger : ledger[i] = order

\* C1: with no import and no storage failure, once every checkout that was
\* started has completed, the ledger holds exactly one more order per completed
\* checkout than it held at the start (no lost updates).
C1_NoLostUpdates ==
    (/\ imPc = "idle"
     /\ faults = 0
     /\ \A p \in Checkouts : ckPc[p] \in {"idle", "done"})
    => Len(ordersStore) =
         Len(InitialOrders) + Cardinality({p \in Checkouts : Succeeded(p)})

\* C2: at most one read-modify-write cycle on the Order Ledger is in flight: no
\* two checkouts are both between their read and their write.
C2_SingleWriter == Cardinality(InCycle) <= 1

\* C3: no two orders of the Order Ledger share an identifier.
C3_UniqueOrderIds ==
    \A i, j \in DOMAIN ordersStore :
        i # j => ordersStore[i].id # ordersStore[j].id

\* C4: one checkout racing one import, both successful and no storage failure:
\* the final ledger is the imported ledger plus the new order, or exactly the
\* imported ledger (the two ran in some order).
C4_CheckoutImportOrdered ==
    \A p \in Checkouts :
        (/\ faults = 0
         /\ imPc = "done" /\ imRes.status = 200
         /\ Succeeded(p)
         /\ \A q \in Checkouts \ {p} : ckPc[q] = "idle")
        => ordersStore \in {Append(OriginOrders, ckOrder[p]), OriginOrders}

\* C5: an order list whose read began while a checkout was between its read and
\* its write contains that checkout's order once the checkout has completed.
C5_ReadSeesStartedWrite ==
    (lsPc = "done" /\ lsRes.status = 200 /\ faults = 0)
    => \A p \in lsPending : Succeeded(p) => InLedger(ckOrder[p], lsRes.orders)

\* C6: a checkout responds with success only if its order is in the ledger as
\* persisted when the response is sent.
C6_SuccessMeansPersisted ==
    [][\A p \in Checkouts :
          (ckRes[p] = NoRes /\ ckRes'[p].status = 200)
          => InLedger(ckOrder'[p], ordersStore')]_vars

\* the catalog's entry of a product, and the amount of its price, read from the
\* catalog itself (the price "2" of the third product is the amount 2)
CatalogEntry(id) == Products[CHOOSE i \in DOMAIN Products : Products[i].id = id]
CatalogPrice(id) ==
    LET price == CatalogEntry(id).price
    IN  IF price.t = "number" THEN price.n ELSE Whole(2)
RECURSIVE SumOver(_, _)
SumOver(f, n) == IF n = 0 THEN 0 ELSE SumOver(f, n - 1) + f[n]

\* C7: every stored order's line totals are catalog price times quantity, its
\* line prices are the catalog's, and its total is the sum of catalog price
\* times quantity over its lines.
C7_TotalFromCatalog ==
    \A i \in DOMAIN ordersStore :
        LET o == ordersStore[i]
            due == [k \in DOMAIN o.items |->
                      (CatalogPrice(o.items[k].productId) * o.items[k].quantity.n) \div Den]
        IN  /\ \A k \in DOMAIN o.items :
                  /\ o.items[k].lineTotal = Num(due[k])
                  /\ o.items[k].price = CatalogEntry(o.items[k].productId).price
            /\ o.total = Num(SumOver(due, Len(o.items)))

\* C7 witness: a stored order of two lines from a cart that supplied its own price
C7_Witness ==
    /\ Succeeded(1)
    /\ InLedger(ckOrder[1], ordersStore)
    /\ Len(ckOrder[1].items) = 2
    /\ ckOrder[1].items[1].productId # ckOrder[1].items[2].productId
    /\ \A k \in DOMAIN ckBody[1].cartItems.a : ckBody[1].cartItems.a[k].price # Undef

\* C8: the quantity of every line of every stored order is a positive integer.
C8_PositiveIntegerQuantity ==
    \A i \in DOMAIN ordersStore :
        \A k \in DOMAIN ordersStore[i].items :
            LET q == ordersStore[i].items[k].quantity
            IN  q.t = "number" /\ q.n > 0 /\ q.n % Den = 0

\* a cartItems that is absent, not a list, or an empty list
NoCart(body) ==
    \/ body.cartItems = Undef
    \/ body.cartItems.t # "array"
    \/ body.cartItems = Arr(<<>>)
Arrived(p) == ckPc[p] = "idle" /\ ckPc'[p] # "idle"

\* C9: a checkout whose cartItems is absent, not a list or empty is answered
\* with the empty-cart error and triggers no notification, and the step that
\* handles it leaves the ledger unchanged.
C9_EmptyCartRejected ==
    /\ [](\A p \in Checkouts :
            (ckPc[p] # "idle" /\ NoCart(ckBody[p]))
            => /\ ckPc[p] = "done"
               /\ ckRes[p] = [status |-> 400, error |-> "Cart is empty."]
               /\ mailed[p] = <<>>)
    /\ [][\A p \in Checkouts :
            (Arrived(p) /\ NoCart(ckBody'[p])) => ordersStore' = ordersStore]_vars

\* C9 witness: an empty list was rejected
C9_Witness ==
    /\ ckPc[1] = "done"
    /\ ckBody[1].cartItems = Arr(<<>>)
    /\ ckRes[1].status = 400

\* a customer that is absent or lacks a name, an email or an address
Lacks(customer, k) ==
    \/ customer.t # "object"
    \/ customer.f[k] \in {Undef, Str("")}
NoCustomer(body) ==
    \/ body.customer = Undef
    \/ Lacks(body.customer, "name")
    \/ Lacks(body.customer, "email")
    \/ Lacks(body.customer, "address")

\* C10: a checkout with a non-empty cart whose customer is absent or lacks a
\* name, an email or an address is answered with the missing-customer-fields
\* error, and the step that handles it leaves the ledger unchanged.
C10_MissingCustomerRejected ==
    /\ [](\A p \in Checkouts :
            (ckPc[p] # "idle" /\ ~NoCart(ckBody[p]) /\ NoCustomer(ckBody[p]))
            => /\ ckPc[p] = "done"
               /\ ckRes[p] =
                    [status |-> 400, error |-> "Missing required customer information."])
    /\ [][\A p \in Checkouts :
            (Arrived(p) /\ ~NoCart(ckBody'[p]) /\ NoCustomer(ckBody'[p]))
            => ordersStore' = ordersStore]_vars

\* C10 witness: a customer with a name and an email and no address was rejected
C10_Witness ==
    /\ ckPc[1] = "done"
    /\ ~NoCart(ckBody[1])
    /\ ckBody[1].customer.t = "object"
    /\ ckBody[1].customer.f.name = Str("A")
    /\ ckBody[1].customer.f.email = Str("a@x.com")
    /\ ckBody[1].customer.f.address = Undef
    /\ ckRes[1].status = 400

\* the entries of a cart whose product the catalog knows, in cart order
Resolving(cart) == SelectSeq(cart, LAMBDA e : \E i \in DOMAIN Products : Products[i].id = e.productId)
\* the request passed the cart and customer checks
PassedChecks(body) == ~NoCart(body) /\ ~NoCustomer(body)

\* C11: a cart entry whose product the catalog does not know is dropped without an
\* error: the order's line items are the resolving entries, one line each, in cart
\* order, and the ledger holds the order with exactly these lines; when no entry
\* resolves the request is answered 400 "Cart items are invalid." and the ledger
\* is left as it was.
C11_UnknownProductsDropped ==
    /\ [](\A p \in Checkouts :
            (ckPc[p] # "idle" /\ PassedChecks(ckBody[p])) =>
                LET kept == Resolving(ckBody[p].cartItems.a)
                IN  IF kept = <<>>
                    THEN /\ ckPc[p] = "done"
                         /\ ckRes[p] = ErrorRes(400, "Cart items are invalid.")
                         /\ ckOrder[p] = Undef
                    ELSE /\ ckRes[p].status \in {0, 200}
                         /\ ckOrder[p] # Undef =>
                               /\ Len(ckOrder[p].items) = Len(kept)
                               /\ \A k \in DOMAIN kept :
                                     ckOrder[p].items[k].productId = kept[k].productId
                               /\ \A i \in DOMAIN ordersStore :
                                     ordersStore[i].id = ckOrder[p].id =>
                                         ordersStore[i].items = ckOrder[p].items)
    /\ [][\A p \in Checkouts :
            (Arrived(p) /\ PassedChecks(ckBody'[p])
                /\ Resolving(ckBody'[p].cartItems.a) = <<>>) =>
                ordersStore' = ordersStore]_vars

\* an order of one line is in the ledger, placed from a cart of an unknown and a known product
C11_Witness ==
    /\ Succeeded(1)
    /\ Len(ckBody[1].cartItems.a) = 2
    /\ ckBody[1].cartItems.a[1].productId = "zz"
    /\ Len(ckOrder[1].items) = 1
    /\ InLedger(ckOrder[1], ordersStore)

\* C12: a failure of the confirmation mail (no transport, a send error, an error
\* raised while the message is built) never changes the checkout's response, which
\* stays the success response of the order, and the step that triggers the mail
\* writes the ledger as the handler's write call alone would.
C12_MailFailureHarmless ==
    /\ [](\A p \in Checkouts :
            mailLog[p] # <<>> =>
                /\ ckPc[p] = "done"
                /\ ckRes[p] = CheckoutOk(ckOrder[p].id))
    /\ [][\A p \in Checkouts :
            mailLog'[p] # mailLog[p] =>
                ordersStore' \in {ordersStore, ckOrders'[p]}]_vars

\* how many times an order occurs in a sequence of orders
Occurrences(o, orders) == Cardinality({i \in DOMAIN orders : orders[i] = o})

\* C13: the order list answered after a successful read holds every order of the
\* ledger exactly as many times as the ledger does (once each), newest first,
\* whatever order the ledger holds them in.
C13_ListNewestFirst ==
    (lsPc = "done" /\ lsRes.status = 200 /\ faults = 0) =>
        /\ Len(lsRes.orders) = Len(ordersStore)
        /\ \A i \in DOMAIN ordersStore :
              Occurrences(ordersStore[i], lsRes.orders) = Occurrences(ordersStore[i], ordersStore)
        /\ \A i, j \in DOMAIN lsRes.orders :
              i < j => lsRes.orders[i].createdAt >= lsRes.orders[j].createdAt

\* the list of a ledger held oldest first was served
C13_Witness ==
    /\ lsPc = "done" /\ lsRes.status = 200 /\ faults = 0
    /\ Len(ordersStore) = MaxOrders
    /\ \A i \in 1 .. MaxOrders - 1 : ordersStore[i].createdAt < ordersStore[i + 1].createdAt

\* C14: the order list is served only to a request of a session that carries an
\* admin identity: a request without one gets no order data, and is answered 401
\* "Not authenticated as admin." wherever the admin routes are served (where they
\* are hidden it is answered 404 before the session is looked at).
C14_ListNeedsSession ==
    /\ lsRes.status = 200 => Truthy(session)
    /\ (lsPc = "done" /\ ~Truthy(session)) =>
          /\ DOMAIN lsRes = {"status", "error"}
          /\ lsRes = NotAuthenticated \/ (lsRes = NotFound /\ ~env.ADMIN_ENABLED)
    /\ (lsPc # "idle" /\ ~Truthy(session) /\ env.ADMIN_ENABLED) => lsRes = NotAuthenticated

\* a request without a session was refused with 401 although the ledger holds orders
C14_Witness ==
    /\ lsPc = "done" /\ ~Truthy(session) /\ ordersStore # <<>>
    /\ lsRes = NotAuthenticated

\* two e-mail addresses that are equal up to letter case
EqualIgnoringCase(a, b) ==
    \/ a = b
    \/ {a, b} \in {{"a@x.com", "A@x.com"}, {"local@x.com", "LOCAL@x.com"}}
\* the directory holds an account of that address
Taken(email, admins) == \E i \in DOMAIN admins : EqualIgnoringCase(admins[i].email, email.s)
\* signup r is taking the step in which the directory is read and tested
SignupReads(r) ==
    /\ suRes'[r] \notin {NotFound, ErrorRes(400, "Name, email and password are required.")}
    /\ faults' = faults
    /\ \/ ~USE_BLOB /\ suPc[r] = "idle" /\ suPc'[r] # "idle"
       \/ suPc[r] = "read" /\ suPc'[r] # "read"

\* C15: a signup whose e-mail address equals, up to letter case, that of an
\* account the directory holds when the handler reads it, is answered 409 "An
\* account with this email already exists." and leaves the directory (and the
\* session) as it was.
C15_DuplicateEmailRejected ==
    [][\A r \in Signups :
          (SignupReads(r) /\ Taken(suBody'[r].email, adminsStore)) =>
              /\ suPc'[r] = "done"
              /\ suRes'[r] = DuplicateEmail
              /\ adminsStore' = adminsStore
              /\ session' = session]_vars

\* a signup with the address of the initial account in capitals was refused
C15_Witness ==
    \E r \in Signups :
        /\ suPc[r] = "done" /\ suRes[r] = DuplicateEmail
        /\ suBody[r].email = Str("LOCAL@x.com")
        /\ \E i \in DOMAIN adminsStore : adminsStore[i].email = "local@x.com"

\* C16: the directory never holds two accounts whose e-mail addresses are equal
\* up to letter case, whatever the order and interleaving of the signups.
C16_UniqueEmails ==
    \A i, j \in DOMAIN adminsStore :
        EqualIgnoringCase(adminsStore[i].email, adminsStore[j].email) => i = j

\* two signups of the same address (up to case) overlapped, both read the directory
\* before either wrote it, and both were answered with success
C16_Witness ==
    /\ suRes[1] = SignupOk /\ suRes[2] = SignupOk
    /\ EqualIgnoringCase(suBody[1].email.s, suBody[2].email.s)
    /\ Len(suAdmins[1]) = Len(suAdmins[2])
    /\ faults = 0

\* login l was let through to the credentials and has been answered
LoginAnswered(l) ==
    lgPc[l] = "done" /\ lgRes[l] # NotFound /\ ~LoginIncomplete(lgBody[l])
\* no account has the address of login l
UnknownEmail(l) == ~Taken(lgBody[l].email, adminsStore)
\* an account has the address of login l, with another password
WrongPassword(l) ==
    /\ Taken(lgBody[l].email, adminsStore)
    /\ \A i \in DOMAIN adminsStore :
          EqualIgnoringCase(adminsStore[i].email, lgBody[l].email.s) =>
              adminsStore[i].passwordHash # bcryptHash(lgBody[l].password)

\* C17: a login with an unknown address and a login with a known address and a
\* wrong password are answered alike, with status 401 and the message "Invalid
\* email or password.", and the step that answers either gives the session no identity.
C17_LoginFailuresAlike ==
    /\ [](\A l1, l2 \in Logins :
            (LoginAnswered(l1) /\ UnknownEmail(l1) /\ LoginAnswered(l2) /\ WrongPassword(l2)) =>
                /\ lgRes[l1] = lgRes[l2]
                /\ lgRes[l1] = ErrorRes(401, "Invalid email or password."))
    /\ [][\A l \in Logins :
            (lgPc[l] # "done" /\ LoginAnswered(l)' /\ (UnknownEmail(l)' \/ WrongPassword(l)')) =>
                session' = session]_vars

\* one login with an unknown address and one with a wrong password have been answered
C17_Witness ==
    /\ LoginAnswered(1) /\ UnknownEmail(1)
    /\ LoginAnswered(2) /\ WrongPassword(2)
    /\ lgRes[2].status = 401

\* the export request carries the configured secret: as the query parameter, or,
\* with no query parameter, as a bearer token or as the bare header
SuppliesSecret(req) ==
    /\ env.DASHBOARD_SYNC_SECRET.t = "string"
    /\ env.DASHBOARD_SYNC_SECRET.s # ""
    /\ \/ req.query = env.DASHBOARD_SYNC_SECRET
       \/ /\ req.query \in {Undef, Str("")}
          /\ req.authorization # Undef
          /\ req.authorization.prefix \in {"", "Bearer ", "bearer "}
          /\ req.authorization.s = env.DASHBOARD_SYNC_SECRET.s

\* C18: the export answers with the ledger and the directory exactly when the
\* secret the caller supplies equals the configured one; otherwise, also when no
\* secret is configured or none is supplied, it answers 401 "Unauthorized" and
\* nothing else.  The session plays no part.  What it answers with is what it
\* read: the two collections as the reads found them.
C18_ExportNeedsSecret ==
    /\ [](exPc # "idle" =>
            IF SuppliesSecret(exReq)
            THEN exPc = "done" => (exRes.status = 200 /\ DOMAIN exRes = {"status", "orders", "admins"})
            ELSE exPc = "done" /\ exRes = ErrorRes(401, "Unauthorized"))
    /\ [][/\ (exPc = "idle" /\ exPc' = "done" /\ exRes'.status = 200) =>
                exRes' = ExportDocument(ordersStore, adminsStore)
          /\ (exPc = "readOrders" /\ exPc' # "readOrders" /\ faults' = faults) =>
                exOrders' = ordersStore
          /\ (exPc = "readAdmins" /\ exPc' = "done" /\ faults' = faults) =>
                exRes' = ExportDocument(exOrders, adminsStore)]_vars

\* a caller without admin session was served the ledger and the directory
C18_Witness ==
    /\ exPc = "done" /\ exRes.status = 200
    /\ ~Truthy(session)
    /\ exRes.orders = Arr(ordersStore) /\ ordersStore # <<>>

\* C19: export-then-import round trip: when an import that got the origin's ledger
\* L and directory D answers with success, the destination's ledger is L and its
\* directory D, whatever they were before.
C19_RoundTrip ==
    [][(/\ imPc # "done" /\ imPc' = "done" /\ imRes'.status = 200
        /\ imData = ExportDocument(OriginOrders, OriginAdmins)) =>
            /\ ordersStore' = OriginOrders
            /\ adminsStore' = OriginAdmins]_vars

\* C20: on the hosted instance (VERCEL = 1) an import request never gets to the
\* fetch, is answered with an error (400 "Sync from production is only available
\* when running the dashboard locally." once past the session test), and both
\* collections stay what they were.
C20_NoImportWhenHosted ==
    env.VERCEL =>
        /\ imPc \in {"idle", "done"}
        /\ imData = Undef
        /\ imPc = "done" =>
              /\ imRes.status \in {400, 401, 404}
              /\ DOMAIN imRes = {"status", "error"}
              /\ Truthy(session) =>
                    imRes = ErrorRes(400, "Sync from production is only available when running the dashboard locally.")
        /\ ordersStore = InitialOrders
        /\ adminsStore = InitialAdmins

\* an import by an admin session on the hosted instance, fully configured, was refused
C20_Witness ==
    /\ env.VERCEL /\ env.PRODUCTION_URL /\ Truthy(env.DASHBOARD_SYNC_SECRET)
    /\ Truthy(session)
    /\ imPc = "done" /\ imRes.status = 400

\* C21: an import goes on to the origin only with an admin session, an origin
\* URL and a shared secret; when any of the three is missing no request is
\* sent to the origin, the response is an error, and both collections stay
\* what they were.
C21_ImportNeedsSessionAndConfiguration ==
    (~Truthy(session) \/ ~env.PRODUCTION_URL \/ ~Truthy(env.DASHBOARD_SYNC_SECRET)) =>
        /\ imPc \in {"idle", "done"}
        /\ imData = Undef
        /\ imPc = "done" =>
              /\ imRes.status \in {400, 401, 404}
              /\ DOMAIN imRes = {"status", "error"}
        /\ ordersStore = InitialOrders
        /\ adminsStore = InitialAdmins

\* a local import by an admin session with the URL set and the secret missing was refused
C21_Witness ==
    /\ ~env.VERCEL /\ env.PRODUCTION_URL /\ ~Truthy(env.DASHBOARD_SYNC_SECRET)
    /\ Truthy(session)
    /\ imPc = "done"
    /\ imRes = ErrorRes(400, "Set PRODUCTION_URL and DASHBOARD_SYNC_SECRET in .env.local to sync from production.")

\* the orders of a ledger that have an e-mail address, and those of one address
HasEmail(order) == order.customer.email.t = "string" /\ order.customer.email.s # ""
Lowered(order) == Str(toLowerCase(order.customer.email.s))
OrdersOf(email, orders) == {i \in DOMAIN orders : HasEmail(orders[i]) /\ Lowered(orders[i]) = email}
\* the customer export answered from the ledger as stored
Exported == cuPc = "done" /\ cuRes.status = 200 /\ faults = 0

\* C22: the export lists exactly one customer per distinct lowercased e-mail
\* address among the orders that have one; the customer's order count is the
\* number of orders of that address, compared without regard to case, and
\* the total spend is the sum of their totals.
C22_OneCustomerPerEmail ==
    Exported =>
        LET cs == cuRes.customers
            orders == ordersStore
        IN  /\ \A i \in DOMAIN orders : HasEmail(orders[i]) =>
                  Cardinality({k \in DOMAIN cs : cs[k].email = Lowered(orders[i])}) = 1
            /\ \A k \in DOMAIN cs :
                  LET mine == OrdersOf(cs[k].email, orders)
                      spent == [i \in DOMAIN orders |->
                                   IF i \in mine THEN orders[i].total.n ELSE 0]
                  IN  /\ mine # {}
                      /\ cs[k].orders = Cardinality(mine)
                      /\ cs[k].totalSpend = Num(SumOver(spent, Len(orders)))

\* orders of 20 and 30 under two spellings of one address were exported as one
\* customer with two orders and 50 spent
C22_Witness ==
    /\ Exported
    /\ Len(ordersStore) = 2
    /\ ordersStore[1].customer.email = Str("a@x.com") /\ ordersStore[1].total = Num(Whole(20))
    /\ ordersStore[2].customer.email = Str("A@x.com") /\ ordersStore[2].total = Num(Whole(30))
    /\ Len(cuRes.customers) = 1
    /\ cuRes.customers[1].orders = 2
    /\ cuRes.customers[1].totalSpend = Num(Whole(50))

\* C23: each of name, phone, address, city, postal code and country of an
\* exported customer is the first non-empty value of that field among the
\* customer's orders in the order they were scanned (empty when no order has
\* one): a later order never replaces a value already there.
C23_FirstNonEmptyWins ==
    Exported =>
        LET cs == cuRes.customers
            orders == ordersStore
        IN  \A k \in DOMAIN cs :
            \A f \in {"name", "phone", "address", "city", "postalCode", "country"} :
                LET having == {i \in OrdersOf(cs[k].email, orders) : Truthy(orders[i].customer[f])}
                IN  IF having = {}
                    THEN cs[k][f] = Str("")
                    ELSE \E i \in having :
                            /\ \A j \in having : i <= j
                            /\ cs[k][f] = orders[i].customer[f]

\* a customer's phone was filled from the second order and the name kept from
\* the first, although the second order gives another name
C23_Witness ==
    /\ Exported
    /\ Len(ordersStore) >= 2
    /\ ordersStore[1].customer.email = Str("a@x.com")
    /\ ordersStore[1].customer.phone = Str("")
    /\ HasEmail(ordersStore[2]) /\ Lowered(ordersStore[2]) = Str("a@x.com")
    /\ ordersStore[2].customer.name # ordersStore[1].customer.name
    /\ cuRes.customers[1].name = ordersStore[1].customer.name
    /\ cuRes.customers[1].phone = ordersStore[2].customer.phone
    /\ Truthy(cuRes.customers[1].phone)

\* the customers listed, without regard to their order in the list
Listed(customers) == {customers[k] : k \in DOMAIN customers}

\* C24: the export folds the orders sorted by creation time, oldest first, so the
\* customers it lists are those of the sorted ledger whatever order the store
\* holds the orders in.
C24_SortedBeforeFolding ==
    Exported => Listed(cuRes.customers) = Listed(CustomersByEmail(SortAsc(ordersStore)))

\* C25: a read of the remote backend that fails (not found, or any transport
\* error) hands the empty collection to its caller: the order list whose read
\* failed is answered 200 with no orders, not with an error.
C25_FailedReadIsEmpty ==
    [][(lsPc = "read" /\ lsPc' = "done" /\ faults' # faults) => lsRes' = ListOk(<<>>)]_vars

\* the read of a ledger that holds orders failed and the list came back empty
C25_Witness ==
    /\ USE_BLOB /\ faults = 1
    /\ ordersStore # <<>>
    /\ lsPc = "done" /\ lsRes = ListOk(<<>>)

\* request r, or login l, is answered in this step
SignupAnswers(r) == suPc[r] # "done" /\ suPc'[r] = "done"
LoginAnswers(l) == lgPc[l] # "done" /\ lgPc'[l] = "done"

\* C26: the session's admin identity changes only when a signup or a login
\* succeeds, and is then the id of the account that signup just created or
\* that login just verified (same address, password matching its hash); a
\* logout clears it; a rejected signup or login leaves it as it was.
C26_IdentityOnlyBySignupOrLogin ==
    [][/\ session' # session =>
            \/ \E r \in Signups :
                  LET admins == suAdmins'[r]
                      admin == admins[Len(admins)]
                  IN  /\ SignupAnswers(r) /\ suRes'[r] = SignupOk
                      /\ admin = NewAdmin(suBody[r], now)
                      /\ session' = admin.id
            \/ \E l \in Logins :
                  /\ LoginAnswers(l) /\ lgRes'[l] = LoginOk
                  /\ toLowerCase(lgAdmin[l].email) = toLowerCase(lgBody[l].email.s)
                  /\ lgAdmin[l].passwordHash = bcryptHash(lgBody[l].password)
                  /\ session' = lgAdmin[l].id
            \/ loPc = "idle" /\ loRes' = LogoutOk /\ session' = Undef
       /\ \A r \in Signups : SignupAnswers(r) /\ suRes'[r] # SignupOk => session' = session
       /\ \A l \in Logins : LoginAnswers(l) /\ lgRes'[l] # LoginOk => session' = session
      ]_vars

\* a login with a wrong password was rejected and a signup gave the session the
\* id of the account it created
C26_Witness ==
    /\ lgPc[1] = "done" /\ lgRes[1] = LoginNoMatch
    /\ lgBody[1].email = Str("local@x.com") /\ lgBody[1].password = Str("bad")
    /\ suPc[1] = "done" /\ suRes[1] = SignupOk
    /\ session = AdminId(now)
    /\ \E i \in DOMAIN adminsStore :
          adminsStore[i].id = session /\ adminsStore[i].email = suBody[1].email.s

\* the session holds no admin identity
LoggedOut == ~Truthy(session)

\* C27: a logout leaves the session without an admin identity, the session
\* stays so until a signup or a login succeeds, and every admin-only request
\* (order list, customer export, import) that arrives meanwhile is refused
\* with 401 "Not authenticated as admin.".
C27_RefusedAfterLogout ==
    [][/\ (loPc = "idle" /\ loRes' = LogoutOk) => LoggedOut'
       /\ (LoggedOut /\ ~LoggedOut') =>
              \/ \E r \in Signups : SignupAnswers(r) /\ suRes'[r] = SignupOk
              \/ \E l \in Logins : LoginAnswers(l) /\ lgRes'[l] = LoginOk
       /\ (LoggedOut /\ lsPc = "idle" /\ lsPc' # "idle") =>
              lsPc' = "done" /\ lsRes' = NotAuthenticated
       /\ (LoggedOut /\ cuPc = "idle" /\ cuPc' # "idle") =>
              cuPc' = "done" /\ cuRes' = NotAuthenticated
       /\ (LoggedOut /\ imPc = "idle" /\ imPc' # "idle") =>
              imPc' = "done" /\ imRes' = NotAuthenticated
      ]_vars

\* the logged-in session logged out, and the order list, the customer export and
\* the import that followed were all refused
C27_Witness ==
    /\ loPc = "done" /\ loRes = LogoutOk
    /\ LoggedOut
    /\ lsPc = "done" /\ lsRes = NotAuthenticated
    /\ cuPc = "done" /\ cuRes = NotAuthenticated
    /\ imPc = "done" /\ imRes = NotAuthenticated

\* the accounts a signup has written: those of the store that are not the
\* account the store began with
Written == {i \in DOMAIN adminsStore : adminsStore[i] # LocalAdmin}

\* C28: every account record written by a signup has the fields id, name,
\* email, passwordHash and createdAt and no other; name and email are those
\* sent, id and createdAt come from the clock, and passwordHash is the bcrypt
\* hash of the password sent, never the password; the answer to a signup
\* carries a status and a success flag or an error text, neither the password
\* nor the hash.
C28_PasswordNeverStored ==
    /\ \A i \in Written :
          LET admin == adminsStore[i]
          IN  /\ DOMAIN admin = {"id", "name", "email", "passwordHash", "createdAt"}
              /\ admin.passwordHash[1] = "hash"
              /\ \E r \in Signups, ms \in 0 .. now :
                    /\ suPc[r] \notin {"idle", "read"}
                    /\ ~SignupIncomplete(suBody[r])
                    /\ admin.id = AdminId(ms) /\ admin.createdAt = ms
                    /\ admin.name = suBody[r].name.s
                    /\ admin.email = suBody[r].email.s
                    /\ admin.passwordHash = bcryptHash(suBody[r].password)
    /\ \A r \in Signups : suPc[r] = "done" =>
          /\ DOMAIN suRes[r] \in {{"status", "success"}, {"status", "error"}}
          /\ suRes[r].status = 200 => suRes[r] = [status |-> 200, success |-> TRUE]

\* a signup succeeded and its account is in the store, holding the hash of the
\* password sent
C28_Witness ==
    /\ suPc[1] = "done" /\ suRes[1] = SignupOk
    /\ \E i \in Written :
          /\ adminsStore[i].email = suBody[1].email.s
          /\ adminsStore[i].passwordHash = bcryptHash(suBody[1].password)

\* C29: a checkout that answers success leaves every order the ledger held
\* before it in place and unchanged, also when its own read of the ledger
\* failed and was taken as empty.
C29_LedgerOnlyGrows ==
    [][\A p \in Checkouts :
          (ckPc[p] # "done" /\ ckPc'[p] = "done" /\ ckRes'[p].status = 200) =>
              /\ Len(ordersStore') >= Len(ordersStore)
              /\ SubSeq(ordersStore', 1, Len(ordersStore)) = ordersStore]_vars

\* C30: every checkout request that has arrived is eventually answered, also
\* when the write of the ledger fails or the notification step raises an error.
C30_CheckoutAnswered ==
    \A p \in Checkouts : (ckPc[p] # "idle") ~> (ckRes[p] # NoRes)

\* C31: the confirmation mail of an order is handed to the mail transport only
\* in a step that leaves the order written in the ledger, at most once per
\* checkout, and never for a checkout that was rejected.
C31_MailOnlyAfterWrite ==
    [][\A p \in Checkouts :
          (/\ mailLog'[p] # mailLog[p]
           /\ mailLog'[p][Len(mailLog'[p])] \in {"sent", "failed"}) =>
              /\ Len(mailed'[p]) = 1
              /\ CheckoutRejection(ckBody'[p]) = NoRes
              /\ InLedger(mailed'[p][1], ordersStore')]_vars

\* C32: an import that reports failure has changed neither collection: the
\* ledger and the directory are replaced together or not at all.
C32_FailedImportChangesNothing ==
    (imPc = "done" /\ imRes.status # 200) =>
        /\ ordersStore = InitialOrders
        /\ adminsStore = InitialAdmins

\* C33: no two accounts of the Admin Directory have the same identifier, also
\* when two signups with different addresses are handled in the same millisecond.
C33_UniqueAdminIds ==
    \A i, j \in DOMAIN adminsStore : i # j => adminsStore[i].id # adminsStore[j].id

\* the session's identity is the id of an account of the directory
SessionAccountExists == \E i \in DOMAIN adminsStore : adminsStore[i].id = session

\* C34: an admin-only request (order list, customer export, import) is let
\* past the session test only when the session's identity is the id of an
\* account in the Admin Directory as it is then, storage failures apart.
C34_SessionRefersToAccount ==
    [][(/\ faults' = 0
        /\ \/ lsPc = "idle" /\ lsPc' # "idle" /\ lsRes' # NotAuthenticated /\ lsRes' # NotFound
           \/ cuPc = "idle" /\ cuPc' # "idle" /\ cuRes' # NotAuthenticated /\ cuRes' # NotFound
           \/ imPc = "idle" /\ imPc' # "idle" /\ imRes' # NotAuthenticated /\ imRes' # NotFound)
       => SessionAccountExists]_vars

\* C35: the server's customer export, the dashboard's customers table and the
\* dashboard's PDF helper make the same customers, in the same order, of
\* every list of orders, orders without a customer or an address included.
C35_AggregatorsAgree ==
    agOut # Undef =>
        /\ agOut.table = agOut.server
        /\ agOut.pdf = agOut.server

\* C37: from an empty cart, after any sequence of addToCart, updateCartQuantity
\* by +1 or -1 and removeFromCart, every cart entry has a quantity of at least 1
\* and no two entries are of the same product; an entry brought to 0 is gone.
C37_CartEntries ==
    /\ \A i \in DOMAIN stateCart : stateCart[i].quantity >= 1
    /\ \A i, j \in DOMAIN stateCart :
           stateCart[i].productId = stateCart[j].productId => i = j

\* a cart of two products, one of them added twice
C37_Witness ==
    /\ Len(stateCart) = 2
    /\ stateCart[1].quantity = 1
    /\ stateCart[2].quantity >= 2

\* C36: after the dashboard's initial load and after every refresh, the orders
\* of the serving instance are eventually fetched and displayed, whether the
\* sync succeeded, was refused, failed or is unavailable on the hosted
\* instance, unless the session is unauthenticated (the page leaves for the
\* login page).
C36_OrdersEventuallyShown == (dbPc = "sync") ~> (dbPc \in {"shown", "login"})

\* C38: at most one auto-refresh timer of the dashboard is active at any time,
\* whatever the visibility changes (a page loaded hidden that becomes visible
\* included), and none is active once a visibility change has hidden the page.
C38_OneTimer ==
    [][/\ Cardinality(timers') <= 1
       /\ (Loaded /\ visibilityState # "hidden" /\ visibilityState' = "hidden") => timers' = {}]_vars

====
